---- MODULE Spec2Model ----
(***************************************************************************)
(* Model of xflow.framework's pipeline lifecycle engine: Pipeline.run,     *)
(* Pipeline.setup (task-id allocation under a file lock), the stage loop   *)
(* and Pipeline.teardown, together with the parts of Node and of the       *)
(* connections that setup and teardown call.                               *)
(*                                                                         *)
(* Spec follows invocations of run() from call to end.  SetupSpec follows  *)
(* concurrent invocations through setup(), where they share taskid.txt     *)
(* and its lock.  I/O errors are modelled where they leave taskid.txt as   *)
(* it was (mkdir, open for reading).                                       *)
(***************************************************************************)
EXTENDS Integers, Sequences, FiniteSets, TLC

\* ------------------------------------------------------------------ bounds
\* Number of concurrent invocations of setup() (processes or threads) on one
\* pipeline name and base directory.
NumProcs == 2
\* Number of invocations of run() that are followed from call to return.
NumRuns == 1
\* The pipeline class defines stage1 .. stage<NumStages>.
NumStages == 2
\* Largest counter value found in taskid.txt before the first invocation.
MaxInitCounter == 9
\* Largest number of stage methods of a pipeline class whose discovery order
\* is examined (stage1 .. stage<k> for each k up to this).
MaxStages == 10
\* Largest number of nodes of the environment that carry the name a run is
\* started with.
MaxNodes == 2
\* Number of execution contexts (threads) that use one node concurrently.
NumContexts == 2
\* Statements (cd scopes entered, operations called) of each of them.
ConcStmts == 2
\* Statements of the one context of a sequential caller.
MaxStmts == 4
\* Deepest nesting of cd scopes.
MaxDepth == 2
\* Times the session of a connection is lost (the peer closes it).
MaxLosses == 1

Procs == 1..NumProcs

Runs == 1..NumRuns

Ctxs == 1..NumContexts

\* ------------------------------------------------------- values and names
NoProc == 0
\* self.result = None
NoResult == "None"
\* self.taskid = None (real task ids are positive)
NoTaskid == -1

\* Text is a sequence of one-character strings.
DigitChars == <<"0", "1", "2", "3", "4", "5", "6", "7", "8", "9">>

DigitVal(c) == (CHOOSE i \in 1..10 : DigitChars[i] = c) - 1

\* f'{n}' for a non-negative int n.
RECURSIVE FormatInt(_)
FormatInt(n) ==
    IF n < 10 THEN <<DigitChars[n + 1]>>
    ELSE FormatInt(n \div 10) \o <<DigitChars[(n % 10) + 1]>>

\* int(s) for a non-empty string of decimal digits.
RECURSIVE ParseInt(_)
ParseInt(s) ==
    IF Len(s) = 0 THEN 0
    ELSE ParseInt(SubSeq(s, 1, Len(s) - 1)) * 10 + DigitVal(s[Len(s)])

\* The process of an invocation is still running.
NotExited == -1

\* taskid.txt does not exist (a file's content is a sequence of characters).
Absent == <<"<absent>">>

\* f'{self.taskid}': the text 'None' while the task id is unset.
FormatTaskid(t) == IF t = NoTaskid THEN <<"N", "o", "n", "e">> ELSE FormatInt(t)

\* Pipeline.name (the class name) and the two base directories.
PipelineName == "example"
LocalBwd == "/local/workdir"
NodeBwd == "/remote/workdir"

\* parent = self.bwd.joinpath(self.name)
ParentDir == <<LocalBwd, PipelineName>>

\* Pipeline.cwd
PipelineCwd(t) == <<LocalBwd, PipelineName, FormatTaskid(t)>>

\* Node.cwd with the empty overlay that holds outside every cd scope.
NodeCwd(t) == <<NodeBwd, PipelineName, FormatTaskid(t)>>

\* The node an invocation is started with (xflow run -n <nodename>):
\* a NativeNode, or a ContainerNode bound to a container name or to an image.
NodeKinds == {"NativeNode", "ContainerNamed", "ContainerImage"}

\* self.__class__.__name__ of the node
ClassName(kind) == IF kind = "NativeNode" THEN "NativeNode" ELSE "ContainerNode"

\* Node.is_container
IsContainer(kind) == ClassName(kind) = "ContainerNode"

\* ContainerConnection.existed: not self._image
Existed(kind) == kind # "ContainerImage"

\* The remote file system a connection's commands act on: the one host of an
\* SSH node or of a named container, a fresh container for each image-backed
\* connection.
HostOf(p, kind) == IF kind = "ContainerImage" THEN <<kind, p>> ELSE <<kind, 0>>

\* ------------------------------------------------------------------ state
VARIABLES
    pc,          \* pc[p]: position of invocation p inside run()
    idfile,      \* content of <bwd>/<name>/taskid.txt, or Absent
    lockHolder,  \* holder of the FileLock on taskid.txt.lock, or NoProc
    ldirs,       \* local directories that exist
    rdirs,       \* remote directories that exist: records [host, path]
    initCounter, \* the counter value the file held before any invocation
    newid,       \* newid[p]: local variable of setup()
    taskid,      \* taskid[p]: self.taskid
    result,      \* result[p]: self.result
    stageIdx,    \* stageIdx[p]: stages 'for stage in self.stages' has fetched
    nodeKind,    \* nodeKind[p]: class and connection variant of self.node
    connOpen,    \* connOpen[p]: the node's connection has been opened
    container,   \* container[p]: "none" | "running" | "removed"
    cmds,        \* cmds[p]: requests issued to the node, in order
    log,         \* log[p]: begin/return/raise events of run() and its steps
    exc,         \* exc[p]: the exception in flight, or NoExc
    retval,      \* retval[p]: how run() ended: "none" | "raised" | a result
    stages,      \* stages[p]: self.stages, fixed by the pipeline class of p
    matched,     \* matched[p]: nodes of the environment named like p's node
    \* One node and its connection, used by the execution contexts t:
    ckind,       \* class and connection variant of the node
    session,     \* the connection's session: "none" | "alive" | "lost"
    connects,    \* connects open() has performed
    losses,      \* times the session was lost
    overlay,     \* Node.__cwd, the working directory overlay of the node
    connCwd,     \* the connection's _cwd
    cpc,         \* cpc[t]: position of context t inside the call it makes
    scopes,      \* scopes[t]: paths of the cd scopes t is inside, outermost first
    own,         \* own[t]: the overlay as the cd calls of t alone leave it
    curOp,       \* curOp[t]: the operation t is calling
    execCwd,     \* execCwd[t]: Node.exec's value of self.cwd
    ran,         \* ran[t]: directory the last command of t ran in, and wanted
    budget,      \* budget[t]: statements t may still begin
    opsDone,     \* operations completed on the connection
    stack,       \* frames of the calling thread as inspect.stack() lists them
    moved,       \* moved[t]: the last transfer of t and the path it acted on
    err,         \* err[t]: the last exception an operation of t ended with
    \* Runs of pipelines r that share one node:
    runBase,     \* runBase[r]: the local base directory of r's process
    runName,     \* runName[r]: Pipeline.name of r
    counter,     \* counter[<<base, name>>]: the number in that taskid.txt
    runId,       \* runId[r]: self.taskid
    runDir,      \* runDir[r]: the remote working directory r resolved
    spc,         \* spc[r]: "created" | "allocated" | "running" | "done"
    \* One connection whose exec is called, call after call:
    variant,     \* "ssh" | "container"
    ctorEnvs,    \* the envs argument the connection was constructed with
    selfEnvs,    \* self._envs
    call,        \* the arguments of the call in progress, self._cwd with them
    environment, \* the local 'environment' of the call
    sent,        \* the command line handed to the far side
    stream,      \* chunks the remote command has yet to deliver before EOF
    avail,       \* the channel is readable: a chunk, or the end of stream
    status,      \* the exit status the remote command ends with
    xpc,         \* "idle" | "loop" | "status" | "done"
    lastRaw,     \* what the last read returned: "none" | "data" | "empty"
    waited,      \* a select() of this call timed out with nothing to read
    outcome,     \* how the call ended
    calls,       \* calls of exec begun
    \* One transfer of a file or of a directory tree:
    tcls,        \* the class of the connection
    targs,       \* the arguments of the call
    lfs,         \* the local files: path -> contents (DirMark: a directory)
    rfs,         \* the files of the far side
    tpc          \* position inside the call

VARIABLES
    exitStatus   \* the exit status of the process of each invocation

VARIABLES
    \* An SFTP connection opened by several threads:
    openLock,    \* the thread that holds self._openlock, or NoProc
    sftpClient,  \* self._sftpclient: "none" | "active" | "inactive"
    transports,  \* Transport.connect calls that succeeded
    opc,         \* position of each thread inside open()
    \* The progress callback of one file transfer:
    clock,       \* int(time.time())
    anchor,      \* the closure's anchor: start and last
    ptask,       \* the transfer: interval of the callback, size of the file
    transferred, \* bytes transferred so far
    lines,       \* the progress lines emitted: second and percent
    ppc,         \* "none" | "moving" | "complete"
    \* A CommandResult and a field read from it:
    out,         \* the raw output handed to CommandResult
    text,        \* the text of the CommandResult
    query,       \* key and col of the getfield call
    field,       \* what getfield returned
    rpc          \* "none" | "raw" | "made" | "got" | "raised"

vars == <<pc, idfile, lockHolder, ldirs, rdirs, initCounter, newid, taskid,
          result, stageIdx, nodeKind, connOpen, container, cmds, log, exc,
          retval, stages, matched, ckind, session, connects, losses, overlay,
          connCwd, cpc, scopes, own, curOp, execCwd, ran, budget, opsDone,
          stack, moved, err, runBase, runName, counter, runId, runDir, spc,
          variant, ctorEnvs, selfEnvs, call, environment, sent, stream,
          avail, status, xpc, lastRaw, waited, outcome, calls, tcls, targs,
          lfs, rfs, tpc, exitStatus, openLock, sftpClient, transports, opc,
          clock, anchor, ptask, transferred, lines, ppc, out, text, query,
          field, rpc>>

\* The state of the invocations of run().
runVars == <<pc, idfile, lockHolder, ldirs, rdirs, initCounter, newid,
             taskid, result, stageIdx, nodeKind, connOpen, container, cmds,
             log, exc, retval, stages, matched, exitStatus>>

\* The state of the node that execution contexts share.
connVars == <<ckind, session, connects, losses, overlay, connCwd, cpc,
              scopes, own, curOp, execCwd, ran, budget, opsDone, stack,
              moved, err>>

\* The state of the runs that share a node.
shareVars == <<runBase, runName, counter, runId, runDir, spc>>

\* The state of the specifications that follow neither run() as a whole nor
\* the contexts of a node.
\* The state of the connection whose exec is followed.
execVars == <<variant, ctorEnvs, selfEnvs, call, environment, sent, stream,
              avail, status, xpc, lastRaw, waited, outcome, calls>>

\* The state of a transfer.
xferVars == <<tcls, targs, lfs, rfs, tpc>>

\* The state of the threads that open one SFTP connection.
openVars == <<openLock, sftpClient, transports, opc>>

\* The state of a progress callback.
progVars == <<clock, anchor, ptask, transferred, lines, ppc>>

\* The state of a CommandResult in use.
textVars == <<out, text, query, field, rpc>>

lateVars == <<openVars, progVars, textVars>>

auxVars == <<shareVars, execVars, xferVars, lateVars>>

NoExc == "NoExc"

\* ------------------------------------------------------- stage discovery
\* The characters of attribute names besides the digits, in code point order.
NameChars == <<"_", "e", "h", "l", "p", "r", "x">>

\* ord(c): the digits come before '_', which comes before the letters.
CodePoint(c) ==
    IF \E i \in 1..10 : DigitChars[i] = c
    THEN 48 + DigitVal(c)
    ELSE 94 + (CHOOSE i \in 1..Len(NameChars) : NameChars[i] = c)

\* Python's str comparison on the suffixes that follow 'stage' (the prefix
\* is common to all stage names): code point order, a proper prefix is
\* smaller.
RECURSIVE LexLess(_, _)
LexLess(a, b) ==
    IF Len(b) = 0 THEN FALSE
    ELSE IF Len(a) = 0 THEN TRUE
    ELSE IF a[1] # b[1] THEN CodePoint(a[1]) < CodePoint(b[1])
    ELSE LexLess(Tail(a), Tail(b))

\* sorted(...) of a set of names
RECURSIVE Sorted(_)
Sorted(S) ==
    IF S = {} THEN <<>>
    ELSE LET m == CHOOSE x \in S : \A y \in S \ {x} : LexLess(x, y)
         IN  <<m>> \o Sorted(S \ {m})

\* The digit suffixes of the stage methods the pipeline class defines.
StageSuffixes == {FormatInt(i) : i \in 1..NumStages}

\* Pipeline.stages
Stages == Sorted(StageSuffixes)

\* Attribute names a pipeline class may define next to setup, run and
\* teardown; the word 'stage' is one element, the other characters one
\* element each.
ClassAttrs == {<<"stage", "1">>, <<"stage", "2">>,
               <<"stage", "1", "_", "h", "e", "l", "p", "e", "r">>,
               <<"stage", "2", "x">>, <<"stage", "_", "1">>, <<"stage">>,
               <<"x", "stage", "1">>}

\* re.match(r'stage\d+', n): the pattern is matched at the start of n and
\* need not reach its end.
ReMatch(n) ==
    /\ Len(n) >= 2
    /\ n[1] = "stage"
    /\ \E i \in 1..10 : DigitChars[i] = n[2]

\* Pipeline.stages of a class with the attributes A, as suffixes of 'stage'.
DiscoveredStages(A) == Sorted({Tail(n) : n \in {m \in A : ReMatch(m)}})

\* The digit suffixes of the stage methods of a class that defines
\* stage1 .. stage<k>.
ClassStageSuffixes(k) == {FormatInt(i) : i \in 1..k}

\* Pipeline.stages of such a class
StagesOf(k) == Sorted(ClassStageSuffixes(k))

StageName(suffix) == <<"stage">> \o suffix

\* ------------------------------------------------------------ log events
Ev(ev, step) == [ev |-> ev, step |-> step]
SetupStep == <<"setup">>
TeardownStep == <<"teardown">>
RunStep == <<"run">>

\* A request issued to the node's connection.
Cmd(op, prog, path) == [op |-> op, prog |-> prog, path |-> path]

\* ----------------------------------------------------------------- Init
\* PurePosixPath(''), and the '' of a connection's _cwd
NoPath == <<>>

NoRan == [want |-> <<"-">>, got |-> <<"-">>]

\* A node that no execution context uses.
NoContexts ==
    /\ ckind = "NativeNode"
    /\ session = "none"
    /\ connects = 0
    /\ losses = 0
    /\ overlay = NoPath
    /\ connCwd = NoPath
    /\ cpc = <<>>
    /\ scopes = <<>>
    /\ own = <<>>
    /\ curOp = <<>>
    /\ execCwd = <<>>
    /\ ran = <<>>
    /\ budget = <<>>
    /\ opsDone = 0
    /\ stack = <<>>
    /\ moved = <<>>
    /\ err = <<>>

\* No runs that share a node.
NoSharers ==
    /\ runBase = <<>>
    /\ runName = <<>>
    /\ counter = <<>>
    /\ runId = <<>>
    /\ runDir = <<>>
    /\ spc = <<>>

\* No connection whose exec is followed.
NoExecs ==
    /\ variant = "none"
    /\ ctorEnvs = <<>>
    /\ selfEnvs = <<>>
    /\ call = <<>>
    /\ environment = <<>>
    /\ sent = <<>>
    /\ stream = <<>>
    /\ avail = FALSE
    /\ status = 0
    /\ xpc = "none"
    /\ lastRaw = "none"
    /\ waited = FALSE
    /\ outcome = <<>>
    /\ calls = 0

\* No transfer.
NoXfers ==
    /\ tcls = "none"
    /\ targs = <<>>
    /\ lfs = <<>>
    /\ rfs = <<>>
    /\ tpc = "none"

\* No thread opens an SFTP connection.
NoOpens ==
    /\ openLock = NoProc
    /\ sftpClient = "none"
    /\ transports = 0
    /\ opc = <<>>

\* No progress callback exists.
NoProgress ==
    /\ clock = 0
    /\ anchor = <<>>
    /\ ptask = <<>>
    /\ transferred = 0
    /\ lines = <<>>
    /\ ppc = "none"

\* No CommandResult is in use.
NoTexts ==
    /\ out = <<>>
    /\ text = <<>>
    /\ query = <<>>
    /\ field = <<>>
    /\ rpc = "none"

NoLate == NoOpens /\ NoProgress /\ NoTexts

NoAux == NoSharers /\ NoExecs /\ NoXfers /\ NoLate

InitFiles == {Absent, <<>>, FormatInt(1), FormatInt(MaxInitCounter)}

\* Variant: an empty file counts as 1 (int(f.read() or 1)).
ReadCounter_EmptyIsOne(content) == IF content = <<>> THEN 1 ELSE ParseInt(content)

\* int(f.read() or 0)
ReadCounter(content) == IF content = <<>> THEN 0 ELSE ParseInt(content)

\* The state before the invocations in PS call run(): each has constructed
\* its Pipeline with a node; taskid.txt is missing or holds a counter.
\* Pipeline.stages of the class is one of the lists in SS, and n nodes of
\* the environment carry the requested node name, for some n in NS.
InitRuns(PS, SS, NS) ==
    /\ pc = [p \in PS |-> "created"]
    /\ idfile \in InitFiles
    /\ lockHolder = NoProc
    /\ ldirs = IF idfile = Absent THEN {} ELSE {ParentDir}
    /\ rdirs = {}
    /\ initCounter = IF idfile \in {Absent, <<>>} THEN 0 ELSE ParseInt(idfile)
    /\ newid = [p \in PS |-> NoTaskid]
    /\ taskid = [p \in PS |-> NoTaskid]
    /\ result = [p \in PS |-> NoResult]
    /\ stageIdx = [p \in PS |-> 0]
    /\ nodeKind \in [PS -> NodeKinds]
    /\ connOpen = [p \in PS |-> FALSE]
    /\ container = [p \in PS |-> "none"]
    /\ cmds = [p \in PS |-> <<>>]
    /\ log = [p \in PS |-> <<>>]
    /\ exc = [p \in PS |-> NoExc]
    /\ retval = [p \in PS |-> "none"]
    /\ \E st \in SS : stages = [p \in PS |-> st]
    /\ \E n \in NS : matched = [p \in PS |-> n]
    /\ exitStatus = [p \in PS |-> NotExited]
    /\ NoContexts
    /\ NoAux

\* The pipeline class defines stage1 .. stage<k> for some k in KS.
InitEnv(PS, KS, NS) == InitRuns(PS, {StagesOf(k) : k \in KS}, NS)

\* The same in an environment whose node names are unique.
InitClasses(PS, KS) == InitEnv(PS, KS, {1})

\* The same with the pipeline class of NumStages stages.
InitWith(PS) == InitClasses(PS, {NumStages})

Init == InitWith(Runs)

\* One invocation of run() on a pipeline class of 1 .. MaxStages stages.
OrderInit == InitClasses({1}, 1..MaxStages)

\* One invocation of run() started with a node name that 1 .. MaxNodes
\* nodes of the environment carry.
FanInit == InitEnv({1}, {NumStages}, 1..MaxNodes)

\* N invocations that will run setup() concurrently.
SetupInit == InitWith(Procs)

\* ------------------------------------------------------------ run(): try
\* Variant: an exception of setup() is swallowed and the stages still run.
RaisePc_SetupContinues(step) == IF step = <<"setup">> THEN "loop" ELSE "raising"

\* Variant: an exception of a stage is swallowed and the loop goes on.
RaisePc_StageContinues(step) == IF step[1] = "stage" THEN "loop" ELSE "raising"

\* Where control goes when setup() or a stage raises inside the try block:
\* to the except clause, whatever raised.
RaisePc(step) == "raising"

\* Variant: run() enters the stage loop without calling setup().
FirstPc_NoSetup == "loop"

\* Where run() goes first: title('setup'); self.setup()
FirstPc == "setup_mkdir"

\* run() is called: the try block is entered and setup() begins.
RunBegin(p) ==
    /\ pc[p] = "created"
    /\ pc' = [pc EXCEPT ![p] = FirstPc]
    /\ log' = [log EXCEPT ![p] =
                 IF FirstPc = "setup_mkdir"
                 THEN <<Ev("begin", RunStep), Ev("begin", SetupStep)>>
                 ELSE <<Ev("begin", RunStep)>>]
    /\ UNCHANGED <<idfile, lockHolder, ldirs, rdirs, initCounter, newid,
                   taskid, result, stageIdx, nodeKind, connOpen, container,
                   cmds, exc, retval>>
    /\ UNCHANGED <<stages, matched, exitStatus, connVars, auxVars>>

\* ------------------------------------------------- setup(): task id
\* parent.mkdir(parents=True, exist_ok=True)
SetupMkdirParent(p) ==
    /\ pc[p] = "setup_mkdir"
    /\ ldirs' = ldirs \cup {ParentDir}
    /\ pc' = [pc EXCEPT ![p] = "setup_touch"]
    /\ UNCHANGED <<idfile, lockHolder, rdirs, initCounter, newid, taskid,
                   result, stageIdx, nodeKind, connOpen, container, cmds,
                   log, exc, retval>>
    /\ UNCHANGED <<stages, matched, exitStatus, connVars, auxVars>>

\* idfile.touch(): creates an empty file, leaves an existing one as it is.
SetupTouch(p) ==
    /\ pc[p] = "setup_touch"
    /\ idfile' = IF idfile = Absent THEN <<>> ELSE idfile
    /\ pc' = [pc EXCEPT ![p] = "setup_lock"]
    /\ UNCHANGED <<lockHolder, ldirs, rdirs, initCounter, newid, taskid,
                   result, stageIdx, nodeKind, connOpen, container, cmds,
                   log, exc, retval>>
    /\ UNCHANGED <<stages, matched, exitStatus, connVars, auxVars>>

\* Variant: the lock does not exclude (the read-increment-write is unguarded).
FileLockFree_NoExclusion(holder) == TRUE

\* FileLock is exclusive: it is acquired only while nobody holds it.
FileLockFree(holder) == holder = NoProc

\* with FileLock(f'{idfile}.lock'): blocks until the lock is free.
SetupLockAcquire(p) ==
    /\ pc[p] = "setup_lock"
    /\ FileLockFree(lockHolder)
    /\ lockHolder' = p
    /\ pc' = [pc EXCEPT ![p] = "setup_read"]
    /\ UNCHANGED <<idfile, ldirs, rdirs, initCounter, newid, taskid, result,
                   stageIdx, nodeKind, connOpen, container, cmds, log, exc,
                   retval>>
    /\ UNCHANGED <<stages, matched, exitStatus, connVars, auxVars>>

\* newid = int(f.read() or 0) + 1
NewId(content) == ReadCounter(content) + 1

\* with open(idfile, 'r+') as f: newid = int(f.read() or 0) + 1
SetupRead(p) ==
    /\ pc[p] = "setup_read"
    /\ newid' = [newid EXCEPT ![p] = NewId(idfile)]
    /\ pc' = [pc EXCEPT ![p] = "setup_openw"]
    /\ UNCHANGED <<idfile, lockHolder, ldirs, rdirs, initCounter, taskid,
                   result, stageIdx, nodeKind, connOpen, container, cmds,
                   log, exc, retval>>
    /\ UNCHANGED <<stages, matched, exitStatus, connVars, auxVars>>

\* open(idfile, 'w') truncates the file.
SetupOpenW(p) ==
    /\ pc[p] = "setup_openw"
    /\ idfile' = <<>>
    /\ pc' = [pc EXCEPT ![p] = "setup_write"]
    /\ UNCHANGED <<lockHolder, ldirs, rdirs, initCounter, newid, taskid,
                   result, stageIdx, nodeKind, connOpen, container, cmds,
                   log, exc, retval>>
    /\ UNCHANGED <<stages, matched, exitStatus, connVars, auxVars>>

\* The text written back to taskid.txt: f'{newid}'
WrittenContent(n) == FormatInt(n)

\* f.write(f'{newid}') and the close at the end of the with block.
SetupWrite(p) ==
    /\ pc[p] = "setup_write"
    /\ idfile' = WrittenContent(newid[p])
    /\ pc' = [pc EXCEPT ![p] = "setup_unlock"]
    /\ UNCHANGED <<lockHolder, ldirs, rdirs, initCounter, newid, taskid,
                   result, stageIdx, nodeKind, connOpen, container, cmds,
                   log, exc, retval>>
    /\ UNCHANGED <<stages, matched, exitStatus, connVars, auxVars>>

\* End of 'with FileLock(...)': the lock is released.
SetupLockRelease(p) ==
    /\ pc[p] = "setup_unlock"
    /\ lockHolder' = NoProc
    /\ pc' = [pc EXCEPT ![p] = "setup_assign"]
    /\ UNCHANGED <<idfile, ldirs, rdirs, initCounter, newid, taskid, result,
                   stageIdx, nodeKind, connOpen, container, cmds, log, exc,
                   retval>>
    /\ UNCHANGED <<stages, matched, exitStatus, connVars, auxVars>>

\* self.taskid = newid
SetupAssign(p) ==
    /\ pc[p] = "setup_assign"
    /\ taskid' = [taskid EXCEPT ![p] = newid[p]]
    /\ pc' = [pc EXCEPT ![p] = "setup_mkcwd"]
    /\ UNCHANGED <<idfile, lockHolder, ldirs, rdirs, initCounter, newid,
                   result, stageIdx, nodeKind, connOpen, container, cmds,
                   log, exc, retval>>
    /\ UNCHANGED <<stages, matched, exitStatus, connVars, auxVars>>

\* An OSError while the task id is allocated: parent.mkdir fails, or the
\* open for reading fails inside the lock (which the with statement then
\* releases).  Neither changes taskid.txt.
SetupAllocRaise(p) ==
    /\ pc[p] \in {"setup_mkdir", "setup_read"}
    /\ lockHolder' = IF lockHolder = p THEN NoProc ELSE lockHolder
    /\ exc' = [exc EXCEPT ![p] = "OSError"]
    /\ log' = [log EXCEPT ![p] = Append(@, Ev("raise", SetupStep))]
    /\ pc' = [pc EXCEPT ![p] = RaisePc(SetupStep)]
    /\ UNCHANGED <<idfile, ldirs, rdirs, initCounter, newid, taskid, result,
                   stageIdx, nodeKind, connOpen, container, cmds, retval>>
    /\ UNCHANGED <<stages, matched, exitStatus, connVars, auxVars>>

\* ------------------------------------- setup(): working directories
IsPrefix(a, b) == Len(a) <= Len(b) /\ SubSeq(b, 1, Len(a)) = a

\* mkdir -p creates the directory and every missing parent.
MkdirP(dirs, host, path) ==
    dirs \cup {[host |-> host, path |-> SubSeq(path, 1, k)] : k \in 1..Len(path)}

\* rm -rf removes the directory and everything below it.
RmRf(dirs, host, path) ==
    {d \in dirs : ~(d.host = host /\ IsPrefix(path, d.path))}

\* The container a ContainerConnection holds once open() has succeeded:
\* containers.get(name) or containers.run(image).
OpenedContainer(kind, c) == IF IsContainer(kind) THEN "running" ELSE c

\* self.node.mkcwd(): conn.exec(f'mkdir -p {self.cwd}').  The autopen
\* decorator opens the connection first; open() or the command may fail.
SetupMkcwd(p) ==
    /\ pc[p] = "setup_mkcwd"
    /\ \/ \* open() raises: nothing is sent to the node
          /\ exc' = [exc EXCEPT ![p] = "ConnectError"]
          /\ log' = [log EXCEPT ![p] = Append(@, Ev("raise", SetupStep))]
          /\ pc' = [pc EXCEPT ![p] = RaisePc(SetupStep)]
          /\ UNCHANGED <<connOpen, container, cmds, rdirs>>
       \/ \* the command exits with a non-zero status
          /\ connOpen' = [connOpen EXCEPT ![p] = TRUE]
          /\ container' = [container EXCEPT ![p] = OpenedContainer(nodeKind[p], @)]
          /\ cmds' = [cmds EXCEPT ![p] =
                        Append(@, Cmd("exec", "mkdir -p", NodeCwd(taskid[p])))]
          /\ exc' = [exc EXCEPT ![p] = "CommandError"]
          /\ log' = [log EXCEPT ![p] = Append(@, Ev("raise", SetupStep))]
          /\ pc' = [pc EXCEPT ![p] = RaisePc(SetupStep)]
          /\ UNCHANGED rdirs
       \/ \* the command succeeds
          /\ connOpen' = [connOpen EXCEPT ![p] = TRUE]
          /\ container' = [container EXCEPT ![p] = OpenedContainer(nodeKind[p], @)]
          /\ cmds' = [cmds EXCEPT ![p] =
                        Append(@, Cmd("exec", "mkdir -p", NodeCwd(taskid[p])))]
          /\ rdirs' = MkdirP(rdirs, HostOf(p, nodeKind[p]), NodeCwd(taskid[p]))
          /\ pc' = [pc EXCEPT ![p] = "setup_lmkdir"]
          /\ UNCHANGED <<exc, log>>
    /\ UNCHANGED <<idfile, lockHolder, ldirs, initCounter, newid, taskid,
                   result, stageIdx, nodeKind, retval>>
    /\ UNCHANGED <<stages, matched, exitStatus, connVars, auxVars>>

\* self.cwd.mkdir(parents=True, exist_ok=True), the last statement of setup().
SetupMkLocalCwd(p) ==
    /\ pc[p] = "setup_lmkdir"
    /\ \/ /\ ldirs' = ldirs \cup {PipelineCwd(taskid[p])}
          /\ log' = [log EXCEPT ![p] = Append(@, Ev("return", SetupStep))]
          /\ pc' = [pc EXCEPT ![p] = "loop"]
          /\ UNCHANGED exc
       \/ /\ exc' = [exc EXCEPT ![p] = "OSError"]
          /\ log' = [log EXCEPT ![p] = Append(@, Ev("raise", SetupStep))]
          /\ pc' = [pc EXCEPT ![p] = RaisePc(SetupStep)]
          /\ UNCHANGED ldirs
    /\ UNCHANGED <<idfile, lockHolder, rdirs, initCounter, newid, taskid,
                   result, stageIdx, nodeKind, connOpen, container, cmds,
                   retval>>
    /\ UNCHANGED <<stages, matched, exitStatus, connVars, auxVars>>

\* ------------------------------------------------------- the stage loop
\* What a stage method may raise: any exception, SystemExit included.
StageExcs == {"CommandError", "SystemExit"}

\* for stage in self.stages: title(stage); getattr(self, stage)() is called
StageBegin(p) ==
    /\ pc[p] = "loop"
    /\ stageIdx[p] < Len(stages[p])
    /\ stageIdx' = [stageIdx EXCEPT ![p] = @ + 1]
    /\ log' = [log EXCEPT ![p] =
                 Append(@, Ev("begin", StageName(stages[p][stageIdx[p] + 1])))]
    /\ pc' = [pc EXCEPT ![p] = "in_stage"]
    /\ UNCHANGED <<idfile, lockHolder, ldirs, rdirs, initCounter, newid,
                   taskid, result, nodeKind, connOpen, container, cmds, exc,
                   retval>>
    /\ UNCHANGED <<stages, matched, exitStatus, connVars, auxVars>>

\* The stage method returns; the loop advances.
StageReturn(p) ==
    /\ pc[p] = "in_stage"
    /\ log' = [log EXCEPT ![p] =
                 Append(@, Ev("return", StageName(stages[p][stageIdx[p]])))]
    /\ pc' = [pc EXCEPT ![p] = "loop"]
    /\ UNCHANGED <<idfile, lockHolder, ldirs, rdirs, initCounter, newid,
                   taskid, result, stageIdx, nodeKind, connOpen, container,
                   cmds, exc, retval>>
    /\ UNCHANGED <<stages, matched, exitStatus, connVars, auxVars>>

\* The stage method raises.
StageRaise(p) ==
    /\ pc[p] = "in_stage"
    /\ \E e \in StageExcs : exc' = [exc EXCEPT ![p] = e]
    /\ log' = [log EXCEPT ![p] =
                 Append(@, Ev("raise", StageName(stages[p][stageIdx[p]])))]
    /\ pc' = [pc EXCEPT ![p] = RaisePc(StageName(stages[p][stageIdx[p]]))]
    /\ UNCHANGED <<idfile, lockHolder, ldirs, rdirs, initCounter, newid,
                   taskid, result, stageIdx, nodeKind, connOpen, container,
                   cmds, retval>>
    /\ UNCHANGED <<stages, matched, exitStatus, connVars, auxVars>>

\* The loop is exhausted: self.result = 'SUCCESSFUL'
TrySucceeds(p) ==
    /\ pc[p] = "loop"
    /\ stageIdx[p] >= Len(stages[p])
    /\ result' = [result EXCEPT ![p] = "SUCCESSFUL"]
    /\ pc' = [pc EXCEPT ![p] = "finally"]
    /\ UNCHANGED <<idfile, lockHolder, ldirs, rdirs, initCounter, newid,
                   taskid, stageIdx, nodeKind, connOpen, container, cmds,
                   log, exc, retval>>
    /\ UNCHANGED <<stages, matched, exitStatus, connVars, auxVars>>

\* --------------------------------------------------- except and finally
\* Variant: 'except Exception:', which lets SystemExit through.
Caught_ExceptionOnly(e) == e # "SystemExit"

\* The bare 'except:' clause catches every exception.
Caught(e) == TRUE

\* Variant: the except clause records success.
ExceptResult_Successful == "SUCCESSFUL"

\* self.result = 'FAILED' in the except clause
ExceptResult == "FAILED"

\* Variant: teardown() is called at the end of the try block only, so the
\* except path leaves run() without it.
AfterExceptPc_NoFinally == "return"

\* Where control goes after the except clause: the finally block.
AfterExceptPc == "finally"

\* except: self.result = 'FAILED'; traceback.print_exc()
Except(p) ==
    /\ pc[p] = "raising"
    /\ IF Caught(exc[p])
       THEN /\ result' = [result EXCEPT ![p] = ExceptResult]
            /\ exc' = [exc EXCEPT ![p] = NoExc]
       ELSE UNCHANGED <<result, exc>>
    /\ pc' = [pc EXCEPT ![p] = AfterExceptPc]
    /\ UNCHANGED <<idfile, lockHolder, ldirs, rdirs, initCounter, newid,
                   taskid, stageIdx, nodeKind, connOpen, container, cmds,
                   log, retval>>
    /\ UNCHANGED <<stages, matched, exitStatus, connVars, auxVars>>

\* finally: title('teardown'); self.teardown() is called
TeardownBegin(p) ==
    /\ pc[p] = "finally"
    /\ log' = [log EXCEPT ![p] = Append(@, Ev("begin", TeardownStep))]
    /\ pc' = [pc EXCEPT ![p] = "teardown"]
    /\ UNCHANGED <<idfile, lockHolder, ldirs, rdirs, initCounter, newid,
                   taskid, result, stageIdx, nodeKind, connOpen, container,
                   cmds, exc, retval>>
    /\ UNCHANGED <<stages, matched, exitStatus, connVars, auxVars>>

\* ------------------------------------------------------------ teardown()
\* Variant: every container node is removed, pre-existing ones included.
RemovesContainer_AnyContainer(kind) == IsContainer(kind)

\* self.node.is_container and not self.node.existed
RemovesContainer(kind) == IsContainer(kind) /\ ~Existed(kind)

\* Variant: teardown() cleans up whatever the result is.
TeardownCleans_Always(res) == TRUE

\* if self.result == 'SUCCESSFUL': the only condition under which teardown()
\* does anything.
TeardownCleans(res) == res = "SUCCESSFUL"

\* Variant: a failing cleanup marks the run FAILED.
ResultAfterTeardownRaise_Failed(res) == "FAILED"

\* teardown() has no assignment to self.result: when its cleanup raises, the
\* result stays what the try/except part made it.
ResultAfterTeardownRaise(res) == res

\* teardown() when self.result is not 'SUCCESSFUL': the body is skipped.
TeardownSkip(p) ==
    /\ pc[p] = "teardown"
    /\ ~TeardownCleans(result[p])
    /\ log' = [log EXCEPT ![p] = Append(@, Ev("return", TeardownStep))]
    /\ pc' = [pc EXCEPT ![p] = "return"]
    /\ UNCHANGED <<idfile, lockHolder, ldirs, rdirs, initCounter, newid,
                   taskid, result, stageIdx, nodeKind, connOpen, container,
                   cmds, exc, retval>>
    /\ UNCHANGED <<stages, matched, exitStatus, connVars, auxVars>>

\* self.node.remove(force=True): the container is removed, or the request
\* raises and the container stays.
TeardownRemove(p) ==
    /\ pc[p] = "teardown"
    /\ TeardownCleans(result[p])
    /\ RemovesContainer(nodeKind[p])
    /\ cmds' = [cmds EXCEPT ![p] = Append(@, Cmd("remove", "force", <<>>))]
    /\ \/ /\ container' = [container EXCEPT ![p] = "removed"]
          /\ log' = [log EXCEPT ![p] = Append(@, Ev("return", TeardownStep))]
          /\ UNCHANGED <<exc, result>>
       \/ /\ exc' = [exc EXCEPT ![p] = "APIError"]
          /\ result' = [result EXCEPT ![p] = ResultAfterTeardownRaise(@)]
          /\ log' = [log EXCEPT ![p] = Append(@, Ev("raise", TeardownStep))]
          /\ UNCHANGED container
    /\ pc' = [pc EXCEPT ![p] = "return"]
    /\ UNCHANGED <<idfile, lockHolder, ldirs, rdirs, initCounter, newid,
                   taskid, stageIdx, nodeKind, connOpen, retval>>
    /\ UNCHANGED <<stages, matched, exitStatus, connVars, auxVars>>

\* self.node.rmcwd(): conn.exec(f'rm -rf {self.cwd}'), which deletes the
\* directory or raises CommandError.
TeardownRmcwd(p) ==
    /\ pc[p] = "teardown"
    /\ TeardownCleans(result[p])
    /\ ~RemovesContainer(nodeKind[p])
    /\ cmds' = [cmds EXCEPT ![p] =
                  Append(@, Cmd("exec", "rm -rf", NodeCwd(taskid[p])))]
    /\ \/ /\ rdirs' = RmRf(rdirs, HostOf(p, nodeKind[p]), NodeCwd(taskid[p]))
          /\ log' = [log EXCEPT ![p] = Append(@, Ev("return", TeardownStep))]
          /\ UNCHANGED <<exc, result>>
       \/ /\ exc' = [exc EXCEPT ![p] = "CommandError"]
          /\ result' = [result EXCEPT ![p] = ResultAfterTeardownRaise(@)]
          /\ log' = [log EXCEPT ![p] = Append(@, Ev("raise", TeardownStep))]
          /\ UNCHANGED rdirs
    /\ pc' = [pc EXCEPT ![p] = "return"]
    /\ UNCHANGED <<idfile, lockHolder, ldirs, initCounter, newid, taskid,
                   stageIdx, nodeKind, connOpen, container, retval>>
    /\ UNCHANGED <<stages, matched, exitStatus, connVars, auxVars>>

\* The end of run(): 'return self.result', unless an exception is in flight
\* after the finally block, which then leaves run().
RunEnd(p) ==
    /\ pc[p] = "return"
    /\ IF exc[p] = NoExc
       THEN /\ retval' = [retval EXCEPT ![p] = result[p]]
            /\ log' = [log EXCEPT ![p] = Append(@, Ev("return", RunStep))]
       ELSE /\ retval' = [retval EXCEPT ![p] = "raised"]
            /\ log' = [log EXCEPT ![p] = Append(@, Ev("raise", RunStep))]
    /\ pc' = [pc EXCEPT ![p] = "done"]
    /\ UNCHANGED <<idfile, lockHolder, ldirs, rdirs, initCounter, newid,
                   taskid, result, stageIdx, nodeKind, connOpen, container,
                   cmds, exc>>
    /\ UNCHANGED <<stages, matched, exitStatus, connVars, auxVars>>

\* ------------------------------------------------------ specification
Next ==
    \E p \in Runs :
        \/ RunBegin(p)
        \/ SetupMkdirParent(p)
        \/ SetupTouch(p)
        \/ SetupLockAcquire(p)
        \/ SetupRead(p)
        \/ SetupOpenW(p)
        \/ SetupWrite(p)
        \/ SetupLockRelease(p)
        \/ SetupAssign(p)
        \/ SetupAllocRaise(p)
        \/ SetupMkcwd(p)
        \/ SetupMkLocalCwd(p)
        \/ StageBegin(p)
        \/ StageReturn(p)
        \/ StageRaise(p)
        \/ TrySucceeds(p)
        \/ Except(p)
        \/ TeardownBegin(p)
        \/ TeardownSkip(p)
        \/ TeardownRemove(p)
        \/ TeardownRmcwd(p)
        \/ RunEnd(p)

\* Runs followed from the call of run() to its end.
Spec == Init /\ [][Next]_vars

\* The exit status of the process after pplinst.run() ended with rv:
\* exit(1) when it returned 'FAILED'; when it returned anything else main()
\* returns and the interpreter exits with 0; when it raised, nothing
\* catches the exception and the interpreter exits with 1.
ExitStatus(rv) == IF rv \in {"FAILED", "raised"} THEN 1 ELSE 0

\* The entry point's run(), after pplinst.run(): the process ends.
MainExit(p) ==
    /\ pc[p] = "done"
    /\ exitStatus' = [exitStatus EXCEPT ![p] = ExitStatus(retval[p])]
    /\ pc' = [pc EXCEPT ![p] = "exited"]
    /\ UNCHANGED <<idfile, lockHolder, ldirs, rdirs, initCounter, newid,
                   taskid, result, stageIdx, nodeKind, connOpen, container,
                   cmds, log, exc, retval>>
    /\ UNCHANGED <<stages, matched, connVars, auxVars>>

MainNext == Next \/ \E p \in Runs : MainExit(p)

\* Runs followed to the end of their process.
MainSpec == Init /\ [][MainNext]_vars

\* The steps of the one invocation whose stage order is examined.
OrderNext ==
    \E p \in {1} :
        \/ RunBegin(p)
        \/ SetupMkdirParent(p)
        \/ SetupTouch(p)
        \/ SetupLockAcquire(p)
        \/ SetupRead(p)
        \/ SetupOpenW(p)
        \/ SetupWrite(p)
        \/ SetupLockRelease(p)
        \/ SetupAssign(p)
        \/ SetupAllocRaise(p)
        \/ SetupMkcwd(p)
        \/ SetupMkLocalCwd(p)
        \/ StageBegin(p)
        \/ StageReturn(p)
        \/ StageRaise(p)
        \/ TrySucceeds(p)
        \/ Except(p)
        \/ TeardownBegin(p)
        \/ TeardownSkip(p)
        \/ TeardownRemove(p)
        \/ TeardownRmcwd(p)
        \/ RunEnd(p)

\* run() on pipeline classes of every size up to MaxStages.
OrderSpec == OrderInit /\ [][OrderNext]_vars

\* run() started with a node name that several nodes may carry.
FanSpec == FanInit /\ [][OrderNext]_vars

\* One invocation of run() on a pipeline class that defines some of the
\* attributes of ClassAttrs.
AttrInit ==
    InitRuns({1}, {DiscoveredStages(A) : A \in SUBSET ClassAttrs}, {1})

\* run() on pipeline classes with helper attributes next to their stages.
AttrSpec == AttrInit /\ [][OrderNext]_vars

\* The steps of run() up to the end of setup().
SetupNext ==
    \E p \in Procs :
        \/ RunBegin(p)
        \/ SetupMkdirParent(p)
        \/ SetupTouch(p)
        \/ SetupLockAcquire(p)
        \/ SetupRead(p)
        \/ SetupOpenW(p)
        \/ SetupWrite(p)
        \/ SetupLockRelease(p)
        \/ SetupAssign(p)
        \/ SetupAllocRaise(p)
        \/ SetupMkcwd(p)
        \/ SetupMkLocalCwd(p)

\* Concurrent invocations followed through their setup().
SetupSpec == SetupInit /\ [][SetupNext]_vars

\* The process of an invocation is killed while it holds the lock (SIGKILL,
\* power loss): no finally clause and no __exit__ runs, the operating system
\* drops the flock of the dead process, and taskid.txt stays as the last
\* completed system call left it.
SetupKill(p) ==
    /\ pc[p] \in {"setup_read", "setup_openw", "setup_write", "setup_unlock"}
    /\ lockHolder = p
    /\ lockHolder' = NoProc
    /\ pc' = [pc EXCEPT ![p] = "killed"]
    /\ UNCHANGED <<idfile, ldirs, rdirs, initCounter, newid, taskid, result,
                   stageIdx, nodeKind, connOpen, container, cmds, log, exc,
                   retval>>
    /\ UNCHANGED <<stages, matched, exitStatus, connVars, auxVars>>

KillNext == SetupNext \/ \E p \in Procs : SetupKill(p)

\* Concurrent invocations followed through their setup(), any of which may
\* be killed inside the lock.
KillSpec == SetupInit /\ [][KillNext]_vars

\* =============================================== a node used by contexts
\* Paths are sequences of components; an absolute path starts with "/".
Dirs == {<<"sub">>, <<"/", "abs">>}

\* PurePosixPath.is_absolute
IsAbsolute(d) == Len(d) > 0 /\ d[1] = "/"

\* PurePosixPath.joinpath, one part at a time: an absolute part replaces
\* what was joined before it, an empty part adds nothing.
JoinPath(base, part) == IF IsAbsolute(part) THEN part ELSE base \o part

\* A Pipeline instance, as far as Node.cwd reads it.
Pip(name, t) == [name |-> name, taskid |-> t]

\* The pipelines that call the node.
Pipelines == {Pip(PipelineName, 1), Pip("other", 2)}

\* A frame none of whose local variables is a Pipeline.
NoPipe == Pip("-", NoTaskid)

\* The frames of Node.cwd and of the Node method that reads it.
NodeFrames == <<NoPipe, NoPipe>>

\* The frames of a stage method and of run(): 'self' is the pipeline.
PipelineFrames(p) == <<p, p>>

\* The stack, innermost frame first, of a stage method that calls the node,
\* its pipeline having been started by the command line.
PlainStack == NodeFrames \o PipelineFrames(Pip(PipelineName, 1))

\* The same for a pipeline that a stage of another pipeline runs.
NestedStack ==
    NodeFrames \o PipelineFrames(Pip("other", 2))
               \o PipelineFrames(Pip(PipelineName, 1))

CallStacks == {PlainStack, NestedStack}

\* Variant: the search runs from the outermost frame inwards.
NodePipeline_Outermost(stk) ==
    LET found == {i \in 1..Len(stk) : stk[i] # NoPipe}
    IN  stk[CHOOSE i \in found : \A j \in found : j <= i]

\* Node.pipeline: the first Pipeline instance met among the locals of the
\* frames of inspect.stack(), which lists the innermost frame first.
NodePipeline(stk) ==
    LET found == {i \in 1..Len(stk) : stk[i] # NoPipe}
    IN  stk[CHOOSE i \in found : \A j \in found : i <= j]

\* Node.cwd: an absolute overlay is returned as it is, anything else is
\* joined: self.bwd.joinpath(p.name, f'{p.taskid}', self.__cwd).
NodeCwdOf(ov, stk) ==
    IF IsAbsolute(ov) THEN ov
    ELSE LET p == NodePipeline(stk)
         IN  JoinPath(JoinPath(JoinPath(<<NodeBwd>>, <<p.name>>),
                               <<FormatTaskid(p.taskid)>>), ov)

\* Node.cwd as the contexts that call the node evaluate it.
CtxCwd(ov) == NodeCwdOf(ov, stack)

\* The remote paths handed to getfile (rfile), putfile (rdir) and exists.
RemoteArgs == {<<"f">>, <<"/", "tmp", "f">>}

\* The directory against which the far side resolves a relative path: the
\* login directory of the SFTP session, the root of the container.
LoginDir(kind) == IF IsContainer(kind) THEN <<"/">> ELSE <<"~">>

\* The connection's getfile / putfile / exists hand str(path) to the SFTP
\* client, respectively to get_archive / put_archive: self._cwd is not used.
ResolveRemote(kind, arg) == JoinPath(LoginDir(kind), arg)

NoMove == [op |-> "none", arg |-> NoPath, at |-> NoPath, want |-> NoPath,
           cd |-> FALSE]

NoErr == [cause |-> "none", type |-> "none"]

\* What makes connect() of paramiko fail: authentication, the connection
\* timeout, no reachable port, a malformed banner, another SSHException.
ShellCauses == {"authentication", "timeout", "port", "banner"}

OpenFailures(kind) ==
    IF IsContainer(kind) THEN {"docker"} ELSE ShellCauses \cup {"protocol"}

\* The exception type the library raises for a cause.
LibraryType(cause) ==
    CASE cause = "authentication" -> "AuthenticationException"
      [] cause = "timeout" -> "socket.timeout"
      [] cause = "port" -> "NoValidConnectionsError"
      [] cause = "banner" -> "SSHException"
      [] cause = "protocol" -> "SSHException"
      [] cause = "docker" -> "DockerException"

\* The exception type open() ends with: the except clauses of
\* SSHConnection.open; ContainerConnection.open catches nothing.
OpenErrorType(cause) ==
    CASE cause = "authentication" -> "SSHConnectError"
      [] cause = "timeout" -> "SSHConnectError"
      [] cause = "port" -> "SSHConnectError"
      [] cause = "banner" -> "SSHConnectError"
      [] OTHER -> LibraryType(cause)

\* The operations of a connection that open it on demand (@autopen);
\* exists() is defined by SSHConnection only.
Transfers(kind) ==
    IF IsContainer(kind) THEN {"getfile", "putfile"}
    ELSE {"getfile", "putfile", "exists"}

\* The invocations of run() are not followed while contexts call the node.
NoRuns ==
    /\ pc = <<>>
    /\ idfile = Absent
    /\ lockHolder = NoProc
    /\ ldirs = {}
    /\ rdirs = {}
    /\ initCounter = 0
    /\ newid = <<>>
    /\ taskid = <<>>
    /\ result = <<>>
    /\ stageIdx = <<>>
    /\ nodeKind = <<>>
    /\ connOpen = <<>>
    /\ container = <<>>
    /\ cmds = <<>>
    /\ log = <<>>
    /\ exc = <<>>
    /\ retval = <<>>
    /\ stages = <<>>
    /\ matched = <<>>
    /\ exitStatus = <<>>

\* A node whose connection has not been opened, outside every cd scope, and
\* the contexts TS about to use it, each with n statements to go, called
\* from one of the stacks SS.
ContextsInit(TS, n, SS) ==
    /\ NoRuns
    /\ NoAux
    /\ ckind \in NodeKinds
    /\ session = "none"
    /\ connects = 0
    /\ losses = 0
    /\ overlay = NoPath
    /\ connCwd = NoPath
    /\ cpc = [t \in TS |-> "idle"]
    /\ scopes = [t \in TS |-> <<>>]
    /\ own = [t \in TS |-> NoPath]
    /\ curOp = [t \in TS |-> "none"]
    /\ execCwd = [t \in TS |-> NoPath]
    /\ ran = [t \in TS |-> NoRan]
    /\ budget = [t \in TS |-> n]
    /\ opsDone = 0
    /\ stack \in SS
    /\ moved = [t \in TS |-> NoMove]
    /\ err = [t \in TS |-> NoErr]

\* One caller that issues its operations one after the other.
SeqInit == ContextsInit({1}, MaxStmts, CallStacks)

\* Several contexts that use the node at the same time.
ConcInit == ContextsInit(Ctxs, ConcStmts, {PlainStack})

\* Node.cd, entry: self.__cwd = PurePosixPath(path)
CdEnter(t) ==
    /\ cpc[t] = "idle"
    /\ budget[t] > 0
    /\ Len(scopes[t]) < MaxDepth
    /\ \E d \in Dirs :
          /\ overlay' = d
          /\ scopes' = [scopes EXCEPT ![t] = Append(@, d)]
          /\ own' = [own EXCEPT ![t] = d]
    /\ budget' = [budget EXCEPT ![t] = @ - 1]
    /\ UNCHANGED <<ckind, session, connects, losses, connCwd, cpc, curOp,
                   execCwd, ran, opsDone>>
    /\ UNCHANGED <<stack, moved, err>>
    /\ UNCHANGED <<runVars, auxVars>>

\* What Node.cd leaves in self.__cwd when its scope is left:
\* finally: self.__cwd = PurePosixPath('')
CdExitOverlay(before) == NoPath

\* Node.cd, exit of the innermost scope of t.
CdExit(t) ==
    /\ cpc[t] = "idle"
    /\ scopes[t] # <<>>
    /\ overlay' = CdExitOverlay(overlay)
    /\ own' = [own EXCEPT ![t] = CdExitOverlay(@)]
    /\ scopes' = [scopes EXCEPT ![t] = SubSeq(@, 1, Len(@) - 1)]
    /\ UNCHANGED <<ckind, session, connects, losses, connCwd, cpc, curOp,
                   execCwd, ran, budget, opsDone>>
    /\ UNCHANGED <<stack, moved, err>>
    /\ UNCHANGED <<runVars, auxVars>>

\* Node.exec is called: self.cwd is evaluated for 'self.__conn.cd(self.cwd)'.
ExecCall(t) ==
    /\ cpc[t] = "idle"
    /\ budget[t] > 0
    /\ curOp' = [curOp EXCEPT ![t] = "exec"]
    /\ execCwd' = [execCwd EXCEPT ![t] = CtxCwd(overlay)]
    /\ cpc' = [cpc EXCEPT ![t] = "conn_cd"]
    /\ budget' = [budget EXCEPT ![t] = @ - 1]
    /\ UNCHANGED <<ckind, session, connects, losses, overlay, connCwd,
                   scopes, own, ran, opsDone>>
    /\ UNCHANGED <<stack, moved, err>>
    /\ UNCHANGED <<runVars, auxVars>>

\* The connection's cd, entry: self._cwd = str(path)
ConnCdEnter(t) ==
    /\ cpc[t] = "conn_cd"
    /\ connCwd' = execCwd[t]
    /\ cpc' = [cpc EXCEPT ![t] = "autopen"]
    /\ UNCHANGED <<ckind, session, connects, losses, overlay, scopes, own,
                   curOp, execCwd, ran, budget, opsDone>>
    /\ UNCHANGED <<stack, moved, err>>
    /\ UNCHANGED <<runVars, auxVars>>

\* Node.getfile / Node.putfile (or exists on an SSH connection) is called:
\* the connection's method is invoked directly.
TransferCall(t) ==
    /\ cpc[t] = "idle"
    /\ budget[t] > 0
    /\ \E op \in Transfers(ckind) :
          /\ curOp' = [curOp EXCEPT ![t] = op]
          /\ \E arg \in RemoteArgs :
                moved' = [moved EXCEPT ![t] =
                            [NoMove EXCEPT !.op = op, !.arg = arg]]
    /\ cpc' = [cpc EXCEPT ![t] = "autopen"]
    /\ budget' = [budget EXCEPT ![t] = @ - 1]
    /\ UNCHANGED <<ckind, session, connects, losses, overlay, connCwd,
                   scopes, own, execCwd, ran, opsDone>>
    /\ UNCHANGED <<stack, err>>
    /\ UNCHANGED <<runVars, auxVars>>

\* Variant: open() has no early return and connects on every call.
HasSession_Never(kind, s) == FALSE

\* The test at the head of open() that makes it return at once:
\* 'transport and transport.active' (SSH), 'self._container' (container,
\* which stays set when the container is gone).
HasSession(kind, s) ==
    IF IsContainer(kind) THEN s # "none" ELSE s = "alive"

\* autopen: conn.open() is called and tests for an existing session.
OpenCheck(t) ==
    /\ cpc[t] = "autopen"
    /\ cpc' = [cpc EXCEPT ![t] =
                 IF HasSession(ckind, session) THEN "body" ELSE "connect"]
    /\ UNCHANGED <<ckind, session, connects, losses, overlay, connCwd,
                   scopes, own, curOp, execCwd, ran, budget, opsDone>>
    /\ UNCHANGED <<stack, moved, err>>
    /\ UNCHANGED <<runVars, auxVars>>

\* open() past the test: self._sshclient.connect(...), respectively
\* containers.get(name) / containers.run(image).
OpenConnect(t) ==
    /\ cpc[t] = "connect"
    /\ session' = "alive"
    /\ connects' = connects + 1
    /\ cpc' = [cpc EXCEPT ![t] = "body"]
    /\ UNCHANGED <<ckind, losses, overlay, connCwd, scopes, own, curOp, execCwd,
                   ran, budget, opsDone>>
    /\ UNCHANGED <<stack, moved, err>>
    /\ UNCHANGED <<runVars, auxVars>>

\* Variant: Node.cd resets self.__cwd after the yield, without try/finally.
RaiseExitOverlay_NoFinally(before) == before

\* What Node.cd leaves in self.__cwd when an exception leaves its scope:
\* the assignment is in the finally clause, so it is the one of a normal
\* exit.
RaiseExitOverlay(before) == CdExitOverlay(before)

\* open() past the test, the connect fails: the exception leaves the
\* operation, the connection's cd when the operation is exec, and the cd
\* scopes of the node the caller is inside, whose finally clauses run.
OpenFails(t) ==
    /\ cpc[t] = "connect"
    /\ \E cause \in OpenFailures(ckind) :
          err' = [err EXCEPT ![t] =
                    [cause |-> cause, type |-> OpenErrorType(cause)]]
    /\ connCwd' = IF curOp[t] = "exec" THEN NoPath ELSE connCwd
    /\ overlay' = IF scopes[t] # <<>> THEN RaiseExitOverlay(overlay) ELSE overlay
    /\ own' = [own EXCEPT ![t] =
                 IF scopes[t] # <<>> THEN RaiseExitOverlay(@) ELSE @]
    /\ scopes' = [scopes EXCEPT ![t] = <<>>]
    /\ cpc' = [cpc EXCEPT ![t] = "idle"]
    /\ UNCHANGED <<ckind, session, connects, losses, curOp, execCwd, ran,
                   budget, opsDone>>
    /\ UNCHANGED <<stack, moved>>
    /\ UNCHANGED <<runVars, auxVars>>

\* The connection's exec: the command is started in self._cwd
\* ('cd {self._cwd} && {cmd}', workdir=self._cwd), or in the login
\* directory when self._cwd is ''.
ExecBody(t) ==
    /\ cpc[t] = "body"
    /\ curOp[t] = "exec"
    /\ ran' = [ran EXCEPT ![t] = [want |-> CtxCwd(own[t]), got |-> connCwd]]
    /\ cpc' = [cpc EXCEPT ![t] = "conn_cd_exit"]
    /\ UNCHANGED <<ckind, session, connects, losses, overlay, connCwd,
                   scopes, own, curOp, execCwd, budget, opsDone>>
    /\ UNCHANGED <<stack, moved, err>>
    /\ UNCHANGED <<runVars, auxVars>>

\* The connection's cd, exit: finally: self._cwd = ''
ConnCdExit(t) ==
    /\ cpc[t] = "conn_cd_exit"
    /\ connCwd' = NoPath
    /\ cpc' = [cpc EXCEPT ![t] = "idle"]
    /\ opsDone' = opsDone + 1
    /\ UNCHANGED <<ckind, session, connects, losses, overlay, scopes, own,
                   curOp, execCwd, ran, budget>>
    /\ UNCHANGED <<stack, moved, err>>
    /\ UNCHANGED <<runVars, auxVars>>

\* getfile / putfile / exists run on the open connection and return: the
\* path acted on, next to the one Node.cwd would give.
TransferBody(t) ==
    /\ cpc[t] = "body"
    /\ curOp[t] # "exec"
    /\ moved' = [moved EXCEPT ![t] =
                   [@ EXCEPT !.at = ResolveRemote(ckind, moved[t].arg),
                             !.want = JoinPath(CtxCwd(overlay), moved[t].arg),
                             !.cd = overlay # NoPath]]
    /\ cpc' = [cpc EXCEPT ![t] = "idle"]
    /\ opsDone' = opsDone + 1
    /\ UNCHANGED <<ckind, session, connects, losses, overlay, connCwd,
                   scopes, own, curOp, execCwd, ran, budget>>
    /\ UNCHANGED <<stack, err>>
    /\ UNCHANGED <<runVars, auxVars>>

\* The session ends from the other side: the SSH transport becomes
\* inactive, the container stops.
SessionLost ==
    /\ session = "alive"
    /\ losses < MaxLosses
    /\ session' = "lost"
    /\ losses' = losses + 1
    /\ UNCHANGED <<ckind, connects, overlay, connCwd, cpc, scopes, own,
                   curOp, execCwd, ran, budget, opsDone>>
    /\ UNCHANGED <<stack, moved, err>>
    /\ UNCHANGED <<runVars, auxVars>>

SeqNext ==
    \/ \E t \in {1} :
          \/ CdEnter(t)
          \/ CdExit(t)
          \/ ExecCall(t)
          \/ ConnCdEnter(t)
          \/ TransferCall(t)
          \/ OpenCheck(t)
          \/ OpenConnect(t)
          \/ OpenFails(t)
          \/ ExecBody(t)
          \/ ConnCdExit(t)
          \/ TransferBody(t)
    \/ SessionLost

\* A sequential caller of one node.
SeqSpec == SeqInit /\ [][SeqNext]_vars

\* The connection's exec ends with CommandError (the command ran in
\* self._cwd and its exit status is not 0): the exception leaves the
\* connection's cd, whose finally clause runs, then Node.exec, and then the
\* innermost n cd scopes of the node around the call, until the caller
\* catches it (n = 0: inside the innermost scope).
ExecRaises(t) ==
    /\ cpc[t] = "body"
    /\ curOp[t] = "exec"
    /\ ran' = [ran EXCEPT ![t] = [want |-> CtxCwd(own[t]), got |-> connCwd]]
    /\ err' = [err EXCEPT ![t] = [cause |-> "status", type |-> "CommandError"]]
    /\ connCwd' = NoPath
    /\ \E n \in 0..Len(scopes[t]) :
          /\ scopes' = [scopes EXCEPT ![t] = SubSeq(@, 1, Len(@) - n)]
          /\ overlay' = IF n > 0 THEN RaiseExitOverlay(overlay) ELSE overlay
          /\ own' = [own EXCEPT ![t] =
                       IF n > 0 THEN RaiseExitOverlay(@) ELSE @]
    /\ cpc' = [cpc EXCEPT ![t] = "idle"]
    /\ UNCHANGED <<ckind, session, connects, losses, curOp, execCwd, budget,
                   opsDone>>
    /\ UNCHANGED <<stack, moved>>
    /\ UNCHANGED <<runVars, auxVars>>

\* close() between two operations, on a connection that was opened:
\* self._sshclient.close() and self._sftpclient.close() (SSH, the client
\* then has no transport), self._dockerclient.close() (container,
\* self._container stays set).
Close(t) ==
    /\ cpc[t] = "idle"
    /\ session \in {"alive", "lost"}
    /\ session' = "closed"
    /\ UNCHANGED <<ckind, connects, losses, overlay, connCwd, cpc, scopes,
                   own, curOp, execCwd, ran, budget, opsDone>>
    /\ UNCHANGED <<stack, moved, err>>
    /\ UNCHANGED <<runVars, auxVars>>

CloseNext == SeqNext \/ \E t \in {1} : Close(t)

\* A sequential caller of one node that may close the connection between
\* its operations.
CloseSpec == SeqInit /\ [][CloseNext]_vars

RaiseNext == SeqNext \/ \E t \in {1} : ExecRaises(t)

\* A sequential caller of one node whose commands may fail.
RaiseSpec == SeqInit /\ [][RaiseNext]_vars

ConcNext ==
    \E t \in Ctxs :
        \/ CdEnter(t)
        \/ CdExit(t)
        \/ ExecCall(t)
        \/ ConnCdEnter(t)
        \/ TransferCall(t)
        \/ OpenCheck(t)
        \/ OpenConnect(t)
        \/ ExecBody(t)
        \/ ConnCdExit(t)
        \/ TransferBody(t)

\* Concurrent contexts on one node, their steps interleaved.
ConcSpec == ConcInit /\ [][ConcNext]_vars

\* ============================================ runs that share one node
\* Runs that are in progress at the same time on one node.
NumSharers == 2
\* Largest number found in a taskid.txt before the runs start.
MaxShareCounter == 1

Sharers == 1..NumSharers

\* The local base directories (xflow run -b <bwd>) of the processes.
LocalBases == {LocalBwd, "/home/user/workdir"}

\* Pipeline.name of the pipeline classes.
PipelineNames == {p.name : p \in Pipelines}

\* The file <bwd>/<name>/taskid.txt that setup() of a run reads and writes.
IdFileOf(r) == <<runBase[r], runName[r]>>

\* Runs about to start, each in a process with its own base directory and
\* pipeline class; a taskid.txt that is missing or empty counts as 0.
ShareInit ==
    /\ NoRuns
    /\ NoContexts
    /\ NoLate
    /\ NoExecs
    /\ NoXfers
    /\ runBase \in [Sharers -> LocalBases]
    /\ runName \in [Sharers -> PipelineNames]
    /\ counter \in [LocalBases \X PipelineNames -> 0..MaxShareCounter]
    /\ runId = [r \in Sharers |-> NoTaskid]
    /\ runDir = [r \in Sharers |-> NoPath]
    /\ spc = [r \in Sharers |-> "created"]

\* setup(), the allocation under the lock of taskid.txt: the number read is
\* incremented, written back, and becomes self.taskid.
ShareAllocate(r) ==
    /\ spc[r] = "created"
    /\ runId' = [runId EXCEPT ![r] = counter[IdFileOf(r)] + 1]
    /\ counter' = [counter EXCEPT ![IdFileOf(r)] = @ + 1]
    /\ spc' = [spc EXCEPT ![r] = "allocated"]
    /\ UNCHANGED <<runBase, runName, runDir>>
    /\ UNCHANGED <<runVars, connVars, execVars, xferVars, lateVars>>

\* setup(): self.node.mkcwd() creates Node.cwd, resolved with the empty
\* overlay from inside the run.
ShareMkcwd(r) ==
    /\ spc[r] = "allocated"
    /\ runDir' = [runDir EXCEPT ![r] =
                    NodeCwdOf(NoPath,
                              NodeFrames
                                \o PipelineFrames(Pip(runName[r], runId[r])))]
    /\ spc' = [spc EXCEPT ![r] = "running"]
    /\ UNCHANGED <<runBase, runName, counter, runId>>
    /\ UNCHANGED <<runVars, connVars, execVars, xferVars, lateVars>>

\* run() returns.
ShareEnd(r) ==
    /\ spc[r] = "running"
    /\ spc' = [spc EXCEPT ![r] = "done"]
    /\ UNCHANGED <<runBase, runName, counter, runId, runDir>>
    /\ UNCHANGED <<runVars, connVars, execVars, xferVars, lateVars>>

ShareNext ==
    \E r \in Sharers :
        \/ ShareAllocate(r)
        \/ ShareMkcwd(r)
        \/ ShareEnd(r)

\* Runs of any pipeline classes from any local base directories on one node.
ShareSpec == ShareInit /\ [][ShareNext]_vars

\* ======================================================= exec, call by call
\* Calls of exec on one connection that are followed.
MaxCalls == 2
\* Most chunks the remote command delivers before the end of its stream.
MaxChunks == 2

\* Values of environment variables are texts cut at the dots.
DefaultLang == <<"en_US", "UTF-8">>

EnvKeys == {"LANG", "X"}

EnvValues(k) == IF k = "LANG" THEN {DefaultLang, <<"C">>} ELSE {<<"a">>}

\* The dicts given as envs to the constructor and to exec ({} for None).
Envs ==
    UNION {{e \in [K -> UNION {EnvValues(k) : k \in EnvKeys}] :
              \A k \in K : e[k] \in EnvValues(k)} : K \in SUBSET EnvKeys}

\* dict.setdefault(k, v)
SetDefault(e, k, v) == IF k \in DOMAIN e THEN e ELSE e @@ (k :> v)

\* __init__: self._envs = envs or {}, then setdefault of LANG and LANGUAGE.
ConnDefaults(e) ==
    SetDefault(SetDefault(e, "LANG", DefaultLang), "LANGUAGE", DefaultLang)

\* dict.update on a copy: environment = self._envs.copy();
\* environment.update(envs)
DictUpdate(e, o) ==
    [k \in DOMAIN e \cup DOMAIN o |-> IF k \in DOMAIN o THEN o[k] ELSE e[k]]

\* Variant: 'environment = self._envs', the update acts on self._envs.
SelfEnvsAfter_Aliased(e, env) == env

\* self._envs after the call built its environment from a copy.
SelfEnvsAfter(e, env) == e

\* environment['LANG'].split('.')[-1]
Codec(lang) == lang[Len(lang)]

\* The names Python's codec registry knows, among those above.
KnownCodecs == {"UTF-8"}

\* What a chunk of the remote output holds: text of the codec, or bytes
\* the codec rejects (binary output, a piece of a multi-byte character).
ChunkKinds == {"text", "bytes"}

Streams == UNION {[1..n -> ChunkKinds] : n \in 0..MaxChunks}

\* recv(1024) / read(1024): the next chunk, b'' at the end of the stream.
Recv(strm) == IF strm = <<>> THEN "empty" ELSE Head(strm)

\* bytes.decode(encoding=encoding, errors='ignore'): b'' gives '' without
\* a codec lookup, an unknown codec raises LookupError, rejected bytes are
\* dropped.
Decode(raw, codec) ==
    IF raw = "empty" THEN ""
    ELSE IF codec \notin KnownCodecs THEN "LookupError"
    ELSE IF raw = "text" THEN "text"
    ELSE ""

\* The exit statuses of the remote commands.
Statuses == {0, 3}

\* exec_inspect(cmdid)['ExitCode'] of a command that is still running: None
NoStatus == -1

\* rc: recv_exit_status() waits for the command to end; exec_inspect
\* reports None while it runs, which it may when its stream has not ended.
ExitCodes(v, strm, st) ==
    IF v = "container" /\ strm # <<>> THEN {NoStatus, st} ELSE {st}

ExecCmd == <<"make">>

\* The command line exec_command gets: f'cd {self._cwd} && {cmd}' if
\* self._cwd else cmd; exec_create gets cmd and workdir.
CommandLine(v, cwd, cmd) ==
    IF v = "ssh" /\ cwd # NoPath THEN <<"cd", cwd, "&&">> \o cmd ELSE cmd

NoOutcome == [kind |-> "none", rc |-> NoStatus, cmd |-> <<>>]

NoCall == [envs |-> <<>>, cmd |-> <<>>, cwd |-> NoPath, prev |-> <<>>]

\* A connection of either variant, constructed with some envs and open.
ExecInit ==
    /\ NoRuns
    /\ NoContexts
    /\ NoLate
    /\ NoSharers
    /\ NoXfers
    /\ variant \in {"ssh", "container"}
    /\ ctorEnvs \in Envs
    /\ selfEnvs = ConnDefaults(ctorEnvs)
    /\ call = NoCall
    /\ environment = <<>>
    /\ sent = <<>>
    /\ stream = <<>>
    /\ avail = FALSE
    /\ status = 0
    /\ xpc = "idle"
    /\ lastRaw = "none"
    /\ waited = FALSE
    /\ outcome = NoOutcome
    /\ calls = 0

\* exec(cmd, envs) up to the loop: the environment is built and the command
\* is started; what it will write and how it will end is the far side's.
ExecStart ==
    /\ xpc \in {"idle", "done"}
    /\ calls < MaxCalls
    /\ \E envs \in Envs, cwd \in {NoPath, <<"/", "abs">>} :
          /\ call' = [envs |-> envs, cmd |-> ExecCmd, cwd |-> cwd,
                      prev |-> call.envs]
          /\ environment' = DictUpdate(selfEnvs, envs)
          /\ selfEnvs' = SelfEnvsAfter(selfEnvs, environment')
          /\ sent' = CommandLine(variant, cwd, ExecCmd)
    /\ stream' \in Streams
    /\ status' \in Statuses
    /\ avail' = FALSE
    /\ lastRaw' = "none"
    /\ waited' = FALSE
    /\ outcome' = NoOutcome
    /\ xpc' = "loop"
    /\ calls' = calls + 1
    /\ UNCHANGED <<variant, ctorEnvs>>
    /\ UNCHANGED <<runVars, connVars, shareVars, xferVars, lateVars>>

\* The remote command writes its next chunk, or ends and closes the stream.
RemoteReady ==
    /\ xpc = "loop"
    /\ ~avail
    /\ avail' = TRUE
    /\ UNCHANGED <<variant, ctorEnvs, selfEnvs, call, environment, sent,
                   stream, status, xpc, lastRaw, waited, outcome, calls>>
    /\ UNCHANGED <<runVars, connVars, shareVars, xferVars, lateVars>>

\* select(..., 0.1) returns an empty rlist: the loop goes round.
PollTimeout ==
    /\ xpc = "loop"
    /\ ~avail
    /\ ~waited
    /\ waited' = TRUE
    /\ UNCHANGED <<variant, ctorEnvs, selfEnvs, call, environment, sent,
                   stream, avail, status, xpc, lastRaw, outcome, calls>>
    /\ UNCHANGED <<runVars, connVars, shareVars, xferVars, lateVars>>

\* The channel is in rlist: data = recv(1024).decode(...); the loop is left
\* when data == '', and by the exception when decode raises.
LoopRead ==
    /\ xpc = "loop"
    /\ avail
    /\ LET raw == Recv(stream)
           data == Decode(raw, Codec(environment["LANG"]))
       IN  /\ lastRaw' = IF raw = "empty" THEN "empty" ELSE "data"
           /\ stream' = IF stream = <<>> THEN stream ELSE Tail(stream)
           /\ avail' = (stream = <<>>)
           /\ xpc' = IF data = "LookupError" THEN "done"
                     ELSE IF data = "" THEN "status"
                     ELSE "loop"
           /\ outcome' = IF data = "LookupError"
                         THEN [kind |-> "LookupError", rc |-> NoStatus,
                               cmd |-> <<>>]
                         ELSE outcome
    /\ UNCHANGED <<variant, ctorEnvs, selfEnvs, call, environment, sent,
                   status, waited, calls>>
    /\ UNCHANGED <<runVars, connVars, shareVars, xferVars, lateVars>>

\* After the loop: rc is fetched; 'if rc != 0: raise CommandError(...)',
\* else 'return CommandResult(output, rc=rc, cmd=cmd)'.
FetchStatus ==
    /\ xpc = "status"
    /\ \E rc \in ExitCodes(variant, stream, status) :
          outcome' = [kind |-> IF rc # 0 THEN "CommandError"
                               ELSE "CommandResult",
                      rc |-> rc, cmd |-> call.cmd]
    /\ xpc' = "done"
    /\ UNCHANGED <<variant, ctorEnvs, selfEnvs, call, environment, sent,
                   stream, avail, status, lastRaw, waited, calls>>
    /\ UNCHANGED <<runVars, connVars, shareVars, xferVars, lateVars>>

ExecNext ==
    \/ ExecStart
    \/ RemoteReady
    \/ PollTimeout
    \/ LoopRead
    \/ FetchStatus

\* Calls of exec on one open connection, one after the other.
ExecSpec == ExecInit /\ [][ExecNext]_vars

\* ================================================= transfers of one file
\* Paths are sequences of names; a file system maps the paths that exist to
\* their contents.
DirMark == "<dir>"

\* PurePath.name, os.path.basename, SFTPConnection.basename
Name(path) == path[Len(path)]

\* open(path, 'wb') / get / put / extract: the file is created or replaced.
WriteFile(fs, path, data) ==
    [q \in DOMAIN fs \cup {path} |-> IF q = path THEN data ELSE fs[q]]

\* os.remove
RemoveFile(fs, path) == [q \in DOMAIN fs \ {path} |-> fs[q]]

Classes == {"SSHConnection", "ContainerConnection", "SFTPConnection"}

FileName == "myfile"

\* f'{rfile.name}.tar'
TarName(name) == IF name = "myfile" THEN "myfile.tar" ELSE "newfile.tar"

\* The directory part of the source path of a transfer.
SourceDirs == {<<>>, <<"home">>, <<"home", "me">>}

\* The directory a transfer copies into.
DestDirs == {<<"tmp">>, <<"dl", "in">>}

\* filename=None
NoName == ""

\* The filename argument, which SFTPConnection alone takes.
FileNames(cls) == IF cls = "SFTPConnection" THEN {NoName, "newfile"} ELSE {NoName}

\* Files found in the destination directory before the call.
Bystanders == {TarName(FileName), "notes"}

\* The files with the names NS in the directory dir.
FilesIn(dir, NS) == [q \in {dir \o <<n>> : n \in NS} |-> "old"]

\* The name tarfile.add(lfile) gives the archive member when no arcname is
\* passed: the path as given, without the leading '/'.
ArcName(lfile) == lfile

\* Where putfile(lfile, rdir[, filename]) leaves the copy:
\* rdir.joinpath(lfile.name) with the SFTP client's put (SSH),
\* put_archive(str(rdir), <tar of tar.add(lfile)>) (container),
\* self.join(rdir, filename or os.path.basename(lfile)) (SFTP).
PutFileDest(cls, lfile, rdir, filename) ==
    CASE cls = "SSHConnection" -> rdir \o <<Name(lfile)>>
      [] cls = "ContainerConnection" -> rdir \o ArcName(lfile)
      [] cls = "SFTPConnection" ->
            rdir \o <<IF filename # NoName THEN filename ELSE Name(lfile)>>

\* Where getfile(rfile, ldir[, filename]) leaves the copy:
\* ldir.joinpath(rfile.name) (SSH; container: the member of get_archive is
\* named rfile.name and is extracted into ldir),
\* os.path.join(ldir, filename or self.basename(rfile)) (SFTP).
GetFileDest(cls, rfile, ldir, filename) ==
    CASE cls = "SSHConnection" -> ldir \o <<Name(rfile)>>
      [] cls = "ContainerConnection" -> ldir \o <<Name(rfile)>>
      [] cls = "SFTPConnection" ->
            ldir \o <<IF filename # NoName THEN filename ELSE Name(rfile)>>

\* ltarfile = ldir.joinpath(f'{rfile.name}.tar')
TarFile(rfile, ldir) == ldir \o <<TarName(Name(rfile))>>

\* A putfile or getfile about to be called on a connection of some class:
\* the source file exists, the destination directory may hold files.
FileInit ==
    /\ NoRuns
    /\ NoContexts
    /\ NoLate
    /\ NoSharers
    /\ NoExecs
    /\ tcls \in Classes
    /\ tpc = "called"
    /\ \E op \in {"putfile", "getfile"}, sd \in SourceDirs, dd \in DestDirs,
          BS \in SUBSET Bystanders :
          LET src == sd \o <<FileName>>
              srcfs == (src :> "new")
              dstfs == FilesIn(dd, BS)
          IN  /\ lfs = IF op = "putfile" THEN srcfs ELSE dstfs
              /\ rfs = IF op = "putfile" THEN dstfs ELSE srcfs
              /\ \E fn \in FileNames(tcls) :
                    targs = [op |-> op, src |-> src, dir |-> dd,
                             filename |-> fn, before |-> dstfs]

\* putfile, for each class.
PutFile ==
    /\ tpc = "called"
    /\ targs.op = "putfile"
    /\ rfs' = WriteFile(rfs,
                        PutFileDest(tcls, targs.src, targs.dir, targs.filename),
                        lfs[targs.src])
    /\ tpc' = "done"
    /\ UNCHANGED <<tcls, targs, lfs>>
    /\ UNCHANGED <<runVars, connVars, shareVars, execVars, lateVars>>

\* getfile of SSHConnection and of SFTPConnection: the SFTP client's get.
GetFile ==
    /\ tpc = "called"
    /\ targs.op = "getfile"
    /\ tcls # "ContainerConnection"
    /\ lfs' = WriteFile(lfs,
                        GetFileDest(tcls, targs.src, targs.dir, targs.filename),
                        rfs[targs.src])
    /\ tpc' = "done"
    /\ UNCHANGED <<tcls, targs, rfs>>
    /\ UNCHANGED <<runVars, connVars, shareVars, execVars, lateVars>>

\* getfile of ContainerConnection: the chunks of get_archive are written to
\* ltarfile.
GetArchive ==
    /\ tpc = "called"
    /\ targs.op = "getfile"
    /\ tcls = "ContainerConnection"
    /\ lfs' = WriteFile(lfs, TarFile(targs.src, targs.dir), "tar")
    /\ tpc' = "extract"
    /\ UNCHANGED <<tcls, targs, rfs>>
    /\ UNCHANGED <<runVars, connVars, shareVars, execVars, lateVars>>

\* tar.extractall(ldir)
Extract ==
    /\ tpc = "extract"
    /\ lfs' = WriteFile(lfs,
                        GetFileDest(tcls, targs.src, targs.dir, targs.filename),
                        rfs[targs.src])
    /\ tpc' = "remove"
    /\ UNCHANGED <<tcls, targs, rfs>>
    /\ UNCHANGED <<runVars, connVars, shareVars, execVars, lateVars>>

\* tar.extractall(ldir) raises (the target cannot be written, the disk is
\* full): the exception ends getfile.
ExtractRaises ==
    /\ tpc = "extract"
    /\ tpc' = "raised"
    /\ UNCHANGED <<tcls, targs, lfs, rfs>>
    /\ UNCHANGED <<runVars, connVars, shareVars, execVars, lateVars>>

\* os.remove(str(ltarfile))
RemoveTar ==
    /\ tpc = "remove"
    /\ lfs' = RemoveFile(lfs, TarFile(targs.src, targs.dir))
    /\ tpc' = "done"
    /\ UNCHANGED <<tcls, targs, rfs>>
    /\ UNCHANGED <<runVars, connVars, shareVars, execVars, lateVars>>

FileNext ==
    \/ PutFile
    \/ GetFile
    \/ GetArchive
    \/ Extract
    \/ ExtractRaises
    \/ RemoveTar

\* One putfile or getfile on a connection of each class.
FileSpec == FileInit /\ [][FileNext]_vars

\* ========================================= transfers of a directory tree
\* Deepest nesting of subdirectories inside the tree that is transferred.
TreeDepth == 2

\* The names of subdirectories, at every level.
SubNames == {"a", "b"}

TreeName == "mydir"

RECURSIVE DirsUpTo(_)
\* The relative paths of the directories up to n levels below the top.
DirsUpTo(n) ==
    IF n = 0 THEN {<<>>}
    ELSE LET D == DirsUpTo(n - 1)
         IN  D \cup {d \o <<x>> : d \in D, x \in SubNames}

\* The relative paths at which the tree may hold a file.
TreeFiles == {d \o <<FileName>> : d \in DirsUpTo(TreeDepth)}

\* The tree with the files T below base: each file holds contents of its
\* own, each directory on the way to a file exists.
TreeAt(base, T) ==
    LET files == {base \o rel : rel \in T}
        dirs == UNION {{SubSeq(f, 1, i) : i \in 1..(Len(f) - 1)} : f \in files}
    IN  [q \in files \cup dirs |->
            IF q \in files THEN ToString(SubSeq(q, Len(base) + 1, Len(q)))
            ELSE DirMark]

\* os.makedirs / SFTPConnection.makedirs: the directory and its parents.
MakeDirs(fs, path) ==
    [q \in DOMAIN fs \cup {SubSeq(path, 1, i) : i \in 1..Len(path)} |->
        IF q \in DOMAIN fs THEN fs[q] ELSE DirMark]

\* The entries of the directory top: those that are directories ...
DirSubdirs(fs, top) ==
    {q[Len(q)] : q \in {r \in DOMAIN fs : /\ Len(r) = Len(top) + 1
                                          /\ IsPrefix(top, r)
                                          /\ fs[r] = DirMark}}

\* ... and those that are files.
DirFiles(fs, top) ==
    {q[Len(q)] : q \in {r \in DOMAIN fs : /\ Len(r) = Len(top) + 1
                                          /\ IsPrefix(top, r)
                                          /\ fs[r] # DirMark}}

Rank(name) == IF name = "a" THEN 1 ELSE 2

RECURSIVE Listed(_, _)
\* The order in which a directory listing (os.walk, listdir_attr) returns
\* names: it is the file system's, here ascending or descending.
Listed(S, order) ==
    IF S = {} THEN <<>>
    ELSE LET m == CHOOSE x \in S : \A y \in S :
                     IF order = "asc" THEN Rank(x) <= Rank(y)
                     ELSE Rank(x) >= Rank(y)
         IN  <<m>> \o Listed(S \ {m}, order)

RECURSIVE Walk(_, _, _)
RECURSIVE WalkEach(_, _, _, _)
\* os.walk(top) and SFTPConnection.walk(top), as the sequence of the 'top'
\* values they yield: the directory itself, then the walk of each of its
\* subdirectories in listing order.
Walk(fs, top, order) ==
    <<top>> \o WalkEach(fs, top, Listed(DirSubdirs(fs, top), order), order)

\* 'for d in dirs: for w in self.walk(self.join(path, d)): yield w'
WalkEach(fs, top, ds, order) ==
    IF ds = <<>> THEN <<>>
    ELSE Walk(fs, top \o <<Head(ds)>>, order)
            \o WalkEach(fs, top, Tail(ds), order)

RECURSIVE CopyWalk(_, _, _, _)
\* The loop of putdir and of getdir over the walk of the source:
\*   basename = basename(top); dst = join(dst, basename); makedirs(dst);
\*   each file f of top is copied to join(dst, f);
\*   join(dst, d) is created for each subdirectory d of top
\* where dst is the one variable (rdir, ldir) that every iteration extends.
CopyWalk(from, tops, dst, to) ==
    IF tops = <<>> THEN to
    ELSE LET top == Head(tops)
             d == dst \o <<Name(top)>>
             made == MakeDirs(to, d)
             copies == {d \o <<f>> : f \in DirFiles(from, top)}
             copied == [q \in DOMAIN made \cup copies |->
                          IF q \in copies THEN from[top \o <<Name(q)>>]
                          ELSE made[q]]
             subs == {d \o <<x>> : x \in DirSubdirs(from, top)}
             after == [q \in DOMAIN copied \cup subs |->
                         IF q \in DOMAIN copied THEN copied[q] ELSE DirMark]
         IN  CopyWalk(from, Tail(tops), d, after)

\* A local tree below src/mydir about to be put below the remote directory
\* srv and fetched back below the local directory new.
DirInit ==
    /\ NoRuns
    /\ NoContexts
    /\ NoLate
    /\ NoSharers
    /\ NoExecs
    /\ tcls = "SFTPConnection"
    /\ tpc = "called"
    /\ \E T \in SUBSET TreeFiles \ {{}}, lorder \in {"asc", "desc"},
          rorder \in {"asc", "desc"} :
          /\ lfs = TreeAt(<<"src", TreeName>>, T)
          /\ targs = [ldir |-> <<"src", TreeName>>, rdir |-> <<"srv">>,
                      back |-> <<"new">>, tree |-> T,
                      lorder |-> lorder, rorder |-> rorder]
    /\ rfs = (<<"srv">> :> DirMark)

\* putdir(ldir, rdir)
PutDir ==
    /\ tpc = "called"
    /\ rfs' = CopyWalk(lfs, Walk(lfs, targs.ldir, targs.lorder), targs.rdir,
                       rfs)
    /\ tpc' = "put"
    /\ UNCHANGED <<tcls, targs, lfs>>
    /\ UNCHANGED <<runVars, connVars, shareVars, execVars, lateVars>>

\* getdir(rdir/<basename of ldir>, new_local_dir)
GetDir ==
    /\ tpc = "put"
    /\ lfs' = CopyWalk(rfs,
                       Walk(rfs, targs.rdir \o <<Name(targs.ldir)>>,
                            targs.rorder),
                       targs.back, lfs)
    /\ tpc' = "done"
    /\ UNCHANGED <<tcls, targs, rfs>>
    /\ UNCHANGED <<runVars, connVars, shareVars, execVars, lateVars>>

DirNext ==
    \/ PutDir
    \/ GetDir

\* One putdir followed by the getdir of what it put.
DirSpec == DirInit /\ [][DirNext]_vars

\* The files below base: relative path -> contents.
RelFiles(fs, base) ==
    LET below == {q \in DOMAIN fs : /\ IsPrefix(base, q)
                                    /\ Len(q) > Len(base)
                                    /\ fs[q] # DirMark}
    IN  {<<SubSeq(q, Len(base) + 1, Len(q)), fs[q]>> : q \in below}

\* ================================== an SFTP connection opened by threads
\* Threads that call open() of one SFTPConnection at the same time.
NumOpeners == 3

Openers == 1..NumOpeners

\* The connection before the calls: never opened, or its session has ended.
OpenInit ==
    /\ NoRuns
    /\ NoContexts
    /\ NoSharers
    /\ NoExecs
    /\ NoXfers
    /\ NoProgress
    /\ NoTexts
    /\ openLock = NoProc
    /\ sftpClient \in {"none", "inactive"}
    /\ transports = 0
    /\ opc = [t \in Openers |-> "call"]

\* Variant: acquire() does not wait for the holder.
SftpLockFree_NoExclusion(holder) == TRUE

\* threading.Lock: acquire() returns only while nobody holds the lock.
SftpLockFree(holder) == holder = NoProc

\* self._openlock.acquire()
OpenAcquire(t) ==
    /\ opc[t] = "call"
    /\ SftpLockFree(openLock)
    /\ openLock' = t
    /\ opc' = [opc EXCEPT ![t] = "test"]
    /\ UNCHANGED <<sftpClient, transports>>
    /\ UNCHANGED <<runVars, connVars, shareVars, execVars, xferVars,
                   progVars, textVars>>

\* if self._sftpclient and self._sftpclient.sock.active: return
OpenTest(t) ==
    /\ opc[t] = "test"
    /\ opc' = [opc EXCEPT ![t] =
                 IF sftpClient = "active" THEN "release" ELSE "connect"]
    /\ UNCHANGED <<openLock, sftpClient, transports>>
    /\ UNCHANGED <<runVars, connVars, shareVars, execVars, xferVars,
                   progVars, textVars>>

\* t = Transport(...); t.connect(...);
\* self._sftpclient = SFTPClient.from_transport(t)
OpenTransport(t) ==
    /\ opc[t] = "connect"
    /\ transports' = transports + 1
    /\ sftpClient' = "active"
    /\ opc' = [opc EXCEPT ![t] = "release"]
    /\ UNCHANGED openLock
    /\ UNCHANGED <<runVars, connVars, shareVars, execVars, xferVars,
                   progVars, textVars>>

\* Transport(...) or t.connect(...) raises: self._sftpclient is not assigned.
OpenTransportFails(t) ==
    /\ opc[t] = "connect"
    /\ opc' = [opc EXCEPT ![t] = "unwind"]
    /\ UNCHANGED <<openLock, sftpClient, transports>>
    /\ UNCHANGED <<runVars, connVars, shareVars, execVars, xferVars,
                   progVars, textVars>>

\* finally: self._openlock.release(), after the return or with the
\* exception in flight.
OpenRelease(t) ==
    /\ opc[t] \in {"release", "unwind"}
    /\ openLock' = NoProc
    /\ opc' = [opc EXCEPT ![t] = IF @ = "release" THEN "done" ELSE "raised"]
    /\ UNCHANGED <<sftpClient, transports>>
    /\ UNCHANGED <<runVars, connVars, shareVars, execVars, xferVars,
                   progVars, textVars>>

OpenNext ==
    \E t \in Openers :
        \/ OpenAcquire(t)
        \/ OpenTest(t)
        \/ OpenTransport(t)
        \/ OpenTransportFails(t)
        \/ OpenRelease(t)

\* Concurrent calls of SFTPConnection.open().
OpenSpec == OpenInit /\ [][OpenNext]_vars

\* ===================================== the progress callback of a transfer
\* Seconds the clock advances while the file is transferred.
MaxTicks == 4

\* The largest file, in the units the transfer reports.
FileSize == 4

\* interval: the default of SSHConnection and the one of SFTPConnection.
Intervals == {1, 3}

\* anchor['last'] = None
NoLast == -1

\* _progress_bar_generator(method, local, remote, interval) has returned the
\* callback: anchor = {'start': int(time.time()), 'last': None}.
ProgInit ==
    /\ NoRuns
    /\ NoContexts
    /\ NoSharers
    /\ NoExecs
    /\ NoXfers
    /\ NoOpens
    /\ NoTexts
    /\ clock = 0
    /\ anchor = [start |-> clock, last |-> NoLast]
    /\ \E i \in Intervals, total \in 1..FileSize :
          ptask = [interval |-> i, total |-> total, calls |-> 0]
    /\ transferred = 0
    /\ lines = <<>>
    /\ ppc = "moving"

\* percent = int(transferred / total * 100)
Percent(done, total) == (done * 100) \div total

\* Variant: the second of the last line is not compared.
Emits_NoLast(now, anc, interval, percent) ==
    (now - anc.start) % interval = 0 \/ percent = 100

\* if (now - anchor['start']) % interval == 0 and now != anchor['last']
\*         or percent == 100:
Emits(now, anc, interval, percent) ==
    ((now - anc.start) % interval = 0 /\ now # anc.last) \/ percent = 100

\* A second passes.
Tick ==
    /\ ppc = "moving"
    /\ clock < MaxTicks
    /\ clock' = clock + 1
    /\ UNCHANGED <<anchor, ptask, transferred, lines, ppc>>
    /\ UNCHANGED <<runVars, connVars, shareVars, execVars, xferVars,
                   openVars, textVars>>

\* The transfer has moved n more units and calls
\* progress_bar(transferred, total).
ProgressBar ==
    /\ ppc = "moving"
    /\ \E n \in 1..FileSize :
          /\ transferred + n <= ptask.total
          /\ transferred' = transferred + n
    /\ ptask' = [ptask EXCEPT !.calls = @ + 1]
    /\ LET percent == Percent(transferred', ptask.total)
       IN  IF Emits(clock, anchor, ptask.interval, percent)
           THEN /\ lines' = Append(lines, [at |-> clock, percent |-> percent])
                /\ anchor' = [anchor EXCEPT !.last = clock]
           ELSE UNCHANGED <<lines, anchor>>
    /\ ppc' = IF transferred' = ptask.total THEN "complete" ELSE "moving"
    /\ UNCHANGED clock
    /\ UNCHANGED <<runVars, connVars, shareVars, execVars, xferVars,
                   openVars, textVars>>

ProgNext ==
    \/ Tick
    \/ ProgressBar

\* The calls of the progress callback during one transfer.
ProgSpec == ProgInit /\ [][ProgNext]_vars

\* ======================================================= CommandResult
\* Text is a sequence of characters.  "ESC" is \x1B, "LF" and "CR" are the
\* line ends, "U" is a character outside string.printable other than ESC.
MaxOut == 4

RawChars == {"ESC", "[", "1", " ", "m", "A", "LF", "CR", "U"}

\* The strings over CS of length up to n.
RECURSIVE StringsUpTo(_, _)
StringsUpTo(CS, n) ==
    IF n = 0 THEN {<<>>}
    ELSE LET shorter == StringsUpTo(CS, n - 1)
         IN  shorter \cup {Append(x, c) : x \in shorter, c \in CS}

\* The length of the match of
\* \x1B(?:[@-Z\\-_]|\[[0-?]*[ -/]*[@-~]) at the start of s, 0 for no match.
\* 'A' is in [@-Z]; '1' is in [0-?], ' ' in [ -/], and 'm', 'A', '[' are in
\* [@-~]; the three classes of the second alternative are disjoint, so the
\* greedy match is the only one.
EscapeLen(s) ==
    LET RECURSIVE Run(_, _)
        Run(i, CS) == IF i <= Len(s) /\ s[i] \in CS THEN Run(i + 1, CS) ELSE i
        params == Run(3, {"1"})
        inter == Run(params, {" "})
    IN  IF Len(s) < 2 \/ s[1] # "ESC" THEN 0
        ELSE IF s[2] \in {"A"} THEN 2
        ELSE IF s[2] = "[" /\ inter <= Len(s) /\ s[inter] \in {"m", "A", "["}
             THEN inter
        ELSE 0

\* remove_ansi_escape_chars: ansi_escape.sub('', s), the matches taken from
\* left to right without overlap.
RECURSIVE RemoveAnsi(_)
RemoveAnsi(s) ==
    IF s = <<>> THEN <<>>
    ELSE IF EscapeLen(s) > 0
         THEN RemoveAnsi(SubSeq(s, EscapeLen(s) + 1, Len(s)))
    ELSE <<s[1]>> \o RemoveAnsi(Tail(s))

\* Variant: every character counts as printable.
IsPrintable_All(c) == TRUE

\* c in string.printable
IsPrintable(c) == c \notin {"ESC", "U"}

\* remove_unprintable_chars: ''.join(c for c in s if c in string.printable)
RemoveUnprintable(s) == SelectSeq(s, IsPrintable)

\* str.splitlines(): the lines without their ends; '\r\n' is one line end,
\* and a line end at the end of the text starts no further line.
SplitLines(s) ==
    LET RECURSIVE Go(_, _)
        Go(rest, cur) ==
            IF rest = <<>> THEN (IF cur = <<>> THEN <<>> ELSE <<cur>>)
            ELSE IF rest[1] = "LF" THEN <<cur>> \o Go(Tail(rest), <<>>)
            ELSE IF rest[1] = "CR"
                 THEN <<cur>> \o Go(IF Len(rest) >= 2 /\ rest[2] = "LF"
                                    THEN Tail(Tail(rest)) ELSE Tail(rest),
                                    <<>>)
            ELSE Go(Tail(rest), Append(cur, rest[1]))
    IN  Go(s, <<>>)

\* '\n'.join(ls)
RECURSIVE JoinLines(_)
JoinLines(ls) ==
    IF ls = <<>> THEN <<>>
    ELSE IF Len(ls) = 1 THEN ls[1]
    ELSE ls[1] \o <<"LF">> \o JoinLines(Tail(ls))

IsSpace(c) == c \in {" ", "LF", "CR"}

\* str.strip()
RECURSIVE Strip(_)
Strip(s) ==
    IF s = <<>> THEN <<>>
    ELSE IF IsSpace(s[1]) THEN Strip(Tail(s))
    ELSE IF IsSpace(s[Len(s)]) THEN Strip(SubSeq(s, 1, Len(s) - 1))
    ELSE s

\* CommandResult.__new__: the text of CommandResult(o).
CommandResultText(o) ==
    Strip(JoinLines(SplitLines(RemoveUnprintable(RemoveAnsi(o)))))

\* A command has produced the raw output.
TextInit ==
    /\ NoRuns
    /\ NoContexts
    /\ NoSharers
    /\ NoExecs
    /\ NoXfers
    /\ NoOpens
    /\ NoProgress
    /\ out \in StringsUpTo(RawChars, MaxOut)
    /\ text = <<>>
    /\ query = <<>>
    /\ field = <<>>
    /\ rpc = "raw"

\* CommandResult(out)
MakeResult ==
    /\ rpc = "raw"
    /\ text' = CommandResultText(out)
    /\ rpc' = "made"
    /\ UNCHANGED <<out, query, field>>
    /\ UNCHANGED <<runVars, connVars, shareVars, execVars, xferVars,
                   openVars, progVars>>

\* CommandResult(result): a CommandResult is handed to CommandResult again.
RemakeResult ==
    /\ rpc = "made"
    /\ query = <<>>
    /\ text' = CommandResultText(text)
    /\ rpc' = "remade"
    /\ UNCHANGED <<out, query, field>>
    /\ UNCHANGED <<runVars, connVars, shareVars, execVars, xferVars,
                   openVars, progVars>>

TextNext ==
    \/ MakeResult
    \/ RemakeResult

\* CommandResult made of every raw output, and made again of the result.
TextSpec == TextInit /\ [][TextNext]_vars

\* ------------------------------------------------------------- getfield
\* Lines of the outputs a field is read from.
MaxLines == 3

FieldLines == {<<"k", " ", "a">>, <<"k", " ", "b">>, <<"c", " ", "a">>,
               <<"k">>}

\* The outputs of up to n of these lines.
RECURSIVE LinesUpTo(_)
LinesUpTo(n) ==
    IF n = 0 THEN {<<>>}
    ELSE LinesUpTo(n - 1)
         \cup {Append(ls, l) : ls \in LinesUpTo(n - 1), l \in FieldLines}

\* sep=None
NoSep == ""

\* A command has produced an output of some lines, and getfield is about to
\* be called on its CommandResult with a key, a column and a separator.
FieldInit ==
    /\ NoRuns
    /\ NoContexts
    /\ NoSharers
    /\ NoExecs
    /\ NoXfers
    /\ NoOpens
    /\ NoProgress
    /\ out \in {JoinLines(ls) : ls \in LinesUpTo(MaxLines) \ {<<>>}}
    /\ text = <<>>
    /\ \E key \in {<<"k">>, <<"k", " ">>, <<"z">>}, col \in {1, 2},
          sep \in {NoSep, " "} :
          query = [key |-> key, col |-> col, sep |-> sep]
    /\ field = <<>>
    /\ rpc = "raw"

\* key in line
Contains(line, key) ==
    \E i \in 0..(Len(line) - Len(key)) : SubSeq(line, i + 1, i + Len(key)) = key

\* line.split(sep): with sep=None the runs of whitespace separate and
\* no empty field is kept; with a separator every occurrence separates.
FieldsOf(line, sep) ==
    LET RECURSIVE Go(_, _)
        Go(rest, cur) ==
            IF rest = <<>>
            THEN (IF sep = NoSep /\ cur = <<>> THEN <<>> ELSE <<cur>>)
            ELSE IF sep = NoSep /\ IsSpace(rest[1])
                 THEN (IF cur = <<>> THEN <<>> ELSE <<cur>>)
                      \o Go(Tail(rest), <<>>)
            ELSE IF rest[1] = sep THEN <<cur>> \o Go(Tail(rest), <<>>)
            ELSE Go(Tail(rest), Append(cur, rest[1]))
    IN  Go(line, <<>>)

\* The line getfield reads the field from: the loop over the lines assigns
\* matchline at every line that contains key and has no break, so the last
\* such line stays ('' when there is none).
MatchLine(ls, key) ==
    LET hits == {i \in 1..Len(ls) : Contains(ls[i], key)}
    IN  IF hits = {} THEN <<>>
        ELSE ls[CHOOSE i \in hits : \A h \in hits : h <= i]

\* getfield(key, col, sep) with a str key.
GetField ==
    /\ rpc = "made"
    /\ query # <<>>
    /\ LET matchline == MatchLine(SplitLines(text), query.key)
           fields == FieldsOf(matchline, query.sep)
       IN  IF matchline = <<>>
           THEN rpc' = "none" /\ field' = <<>>
           ELSE IF query.col > Len(fields)
                THEN rpc' = "raised" /\ field' = <<>>
           ELSE rpc' = "got" /\ field' = Strip(fields[query.col])
    /\ UNCHANGED <<out, text, query>>
    /\ UNCHANGED <<runVars, connVars, shareVars, execVars, xferVars,
                   openVars, progVars>>

FieldNext ==
    \/ MakeResult
    \/ GetField

\* getfield on the CommandResult of an output.
FieldSpec == FieldInit /\ [][FieldNext]_vars

\* ====================================================== checked properties
\* Positions of run() at which the task id allocation of setup() is not over.
AllocPcs == {"created", "setup_mkdir", "setup_touch", "setup_lock",
             "setup_read", "setup_openw", "setup_write", "setup_unlock",
             "setup_assign"}

\* Positions of run() after the try/except part, where self.result is set.
EndPcs == {"finally", "teardown", "return", "done"}

InLog(p, e) == \E i \in 1..Len(log[p]) : log[p][i] = e

IsStage(step) == step[1] = "stage"

StageRaisedAt(p, i) == log[p][i].ev = "raise" /\ IsStage(log[p][i].step)

StageBeganAt(p, i) == log[p][i].ev = "begin" /\ IsStage(log[p][i].step)

\* C1: concurrent setup() invocations on one pipeline name and base directory
\* never obtain the same new task id, neither as newid inside the lock nor as
\* self.taskid afterwards.
C1_DistinctTaskids ==
    \A p, q \in DOMAIN pc :
        p # q =>
            /\ (newid[p] # NoTaskid /\ newid[q] # NoTaskid => newid[p] # newid[q])
            /\ (taskid[p] # NoTaskid /\ taskid[q] # NoTaskid => taskid[p] # taskid[q])

\* Two invocations are inside setup() at the same time, both with a task id.
C1_Witness ==
    \E p, q \in DOMAIN pc :
        /\ p # q
        /\ pc[p] = "setup_mkcwd" /\ pc[q] = "setup_mkcwd"
        /\ taskid[p] # NoTaskid /\ taskid[q] # NoTaskid

Allocated == {p \in DOMAIN pc : taskid[p] # NoTaskid}

\* C2: once every invocation has left the allocation, the invocations that
\* obtained a task id hold exactly c+1 .. c+k, c being the initial counter and
\* k their number (k = N when no allocation raised), and taskid.txt holds c+k.
C2_ConsecutiveTaskids ==
    (\A p \in DOMAIN pc : pc[p] \notin AllocPcs) =>
        /\ {taskid[p] : p \in Allocated} =
               (initCounter + 1)..(initCounter + Cardinality(Allocated))
        /\ Allocated # {} =>
               idfile = FormatInt(initCounter + Cardinality(Allocated))

\* All N invocations have obtained their task id, starting from a counter
\* whose increments change the number of digits.
C2_Witness ==
    /\ \A p \in DOMAIN pc : pc[p] \notin AllocPcs
    /\ Allocated = DOMAIN pc
    /\ initCounter = MaxInitCounter

\* The step that began at position i of the log has ended at position i + 1,
\* or is still executing at the end of the log.
EndsNext(p, i) ==
    i < Len(log[p]) =>
        /\ log[p][i + 1].step = log[p][i].step
        /\ log[p][i + 1].ev \in {"return", "raise"}

\* C3: in every run() setup() is entered first; a stage starts only after
\* setup() returned and right after the previous step returned, so at most
\* one step executes at a time; teardown() starts only after setup and all
\* executed stages have ended; run() ends only after teardown() has ended.
C3_LifecycleOrder ==
    \A p \in DOMAIN pc :
        /\ Len(log[p]) >= 1 => log[p][1] = Ev("begin", RunStep)
        /\ Len(log[p]) >= 2 => log[p][2] = Ev("begin", SetupStep)
        /\ \A i \in 2..Len(log[p]) :
              /\ log[p][i].ev = "begin" => EndsNext(p, i)
              /\ StageBeganAt(p, i) =>
                    /\ \E j \in 1..(i - 1) : log[p][j] = Ev("return", SetupStep)
                    /\ log[p][i - 1].ev = "return"
              /\ log[p][i] = Ev("begin", TeardownStep) =>
                    /\ log[p][i - 1].ev \in {"return", "raise"}
                    /\ \A j \in (i + 1)..Len(log[p]) :
                          log[p][j].step \in {TeardownStep, RunStep}
              /\ log[p][i].step = RunStep =>
                    /\ i = Len(log[p])
                    /\ log[p][i - 1].step = TeardownStep
                    /\ log[p][i - 1].ev \in {"return", "raise"}

\* A run has gone through setup, every stage and teardown, and has returned.
C3_Witness ==
    \E p \in DOMAIN pc :
        /\ pc[p] = "done"
        /\ \A k \in 1..Len(Stages) : InLog(p, Ev("return", StageName(Stages[k])))
        /\ InLog(p, Ev("return", RunStep))

TeardownCalls(p) ==
    Cardinality({i \in 1..Len(log[p]) : log[p][i] = Ev("begin", TeardownStep)})

\* C4: teardown() is never called twice in a run, and a run that has ended
\* has called it exactly once, whether setup or a stage raised or not.
C4_TeardownOnce ==
    \A p \in DOMAIN pc :
        /\ TeardownCalls(p) <= 1
        /\ pc[p] = "done" => TeardownCalls(p) = 1

\* A run in which setup() raised has ended.
C4_Witness ==
    \E p \in DOMAIN pc : pc[p] = "done" /\ InLog(p, Ev("raise", SetupStep))

\* C5: when setup() raises, no stage is ever started in that run, the next
\* step that starts is teardown(), and the result is FAILED.
C5_SetupFailureSkipsStages ==
    \A p \in DOMAIN pc :
        \A i \in 1..Len(log[p]) :
            log[p][i] = Ev("raise", SetupStep) =>
                /\ \A j \in 1..Len(log[p]) : ~StageBeganAt(p, j)
                /\ i < Len(log[p]) => log[p][i + 1] = Ev("begin", TeardownStep)
                /\ pc[p] \in EndPcs => result[p] = "FAILED"

\* setup() raised in the remote mkdir, after the task id was assigned, and
\* the run has ended.
C5_Witness ==
    \E p \in DOMAIN pc :
        /\ pc[p] = "done"
        /\ InLog(p, Ev("raise", SetupStep))
        /\ taskid[p] # NoTaskid
        /\ Len(cmds[p]) = 1

\* C6: when a stage raises, no stage is started after it in that run and the
\* result is FAILED.
C6_StageFailureAborts ==
    \A p \in DOMAIN pc :
        \A i \in 1..Len(log[p]) :
            StageRaisedAt(p, i) =>
                /\ \A j \in (i + 1)..Len(log[p]) : ~StageBeganAt(p, j)
                /\ pc[p] \in EndPcs => result[p] = "FAILED"

\* The first stage raised while later stages remained, and the run has ended.
C6_Witness ==
    \E p \in DOMAIN pc :
        /\ pc[p] = "done"
        /\ Len(Stages) > 1
        /\ InLog(p, Ev("raise", StageName(Stages[1])))

AllReturned(p) ==
    /\ InLog(p, Ev("return", SetupStep))
    /\ \A k \in 1..Len(Stages) : InLog(p, Ev("return", StageName(Stages[k])))

\* C7: once the try/except part of run() is over, the result is SUCCESSFUL if
\* setup() and every discovered stage returned and FAILED otherwise, and a
\* run() that returns yields that result.
C7_ResultIffAllReturned ==
    \A p \in DOMAIN pc :
        /\ pc[p] \in EndPcs =>
              result[p] = (IF AllReturned(p) THEN "SUCCESSFUL" ELSE "FAILED")
        /\ InLog(p, Ev("return", RunStep)) => retval[p] = result[p]

\* A run has returned SUCCESSFUL.
C7_Witness ==
    \E p \in DOMAIN pc : pc[p] = "done" /\ retval[p] = "SUCCESSFUL"

RaisedInTry(p) ==
    \E i \in 1..Len(log[p]) :
        log[p][i] = Ev("raise", SetupStep) \/ StageRaisedAt(p, i)

\* C8: a run in which setup() or a stage raised ends by returning 'FAILED',
\* after teardown() has run; the exception does not leave run().
C8_ExceptionsCaught ==
    \A p \in DOMAIN pc :
        (pc[p] = "done" /\ RaisedInTry(p)) =>
            /\ retval[p] = "FAILED"
            /\ InLog(p, Ev("return", TeardownStep))
            /\ exc[p] = NoExc

\* A run in which a stage raised has returned.
C8_Witness ==
    \E p \in DOMAIN pc :
        /\ pc[p] = "done"
        /\ \E i \in 1..Len(log[p]) : StageRaisedAt(p, i)
        /\ retval[p] = "FAILED"

\* C9: when teardown() raises, run() still returns the result computed
\* before teardown started.
C9_TeardownFailureKeepsResult ==
    \A p \in DOMAIN pc :
        (pc[p] = "done" /\ InLog(p, Ev("raise", TeardownStep))) =>
            retval[p] = result[p]

LastCmd(p) == cmds[p][Len(cmds[p])]

\* C10: after teardown() of a SUCCESSFUL run, a container node created from
\* an image has received the forced remove and no rm -rf; every other node
\* has received rm -rf of the directory base_dir/<name>/<task id> that the
\* mkdir -p of setup() created, and no remove.  When teardown returned, the
\* container is removed, respectively the directory is gone.
C10_SuccessCleanup ==
    \A p \in DOMAIN pc :
        (pc[p] \in {"return", "done"} /\ result[p] = "SUCCESSFUL") =>
            /\ Len(cmds[p]) = 2
            /\ cmds[p][1] =
                  Cmd("exec", "mkdir -p", <<NodeBwd, PipelineName, FormatInt(taskid[p])>>)
            /\ IF nodeKind[p] = "ContainerImage"
               THEN /\ LastCmd(p) = Cmd("remove", "force", <<>>)
                    /\ InLog(p, Ev("return", TeardownStep)) =>
                          container[p] = "removed"
               ELSE /\ LastCmd(p) = Cmd("exec", "rm -rf", cmds[p][1].path)
                    /\ container[p] # "removed"
                    /\ InLog(p, Ev("return", TeardownStep)) =>
                          \A d \in rdirs :
                              ~(d.host = HostOf(p, nodeKind[p])
                                /\ d.path = cmds[p][1].path)

\* A SUCCESSFUL run on an image-created container has removed it.
C10_Witness ==
    \E p \in DOMAIN pc :
        /\ pc[p] = "done"
        /\ result[p] = "SUCCESSFUL"
        /\ nodeKind[p] = "ContainerImage"
        /\ container[p] = "removed"

\* The step of invocation p that carries out teardown(), taken with the result
\* FAILED.
FailedTeardownStep(p) ==
    pc[p] = "teardown" /\ result[p] = "FAILED" /\ pc'[p] # pc[p]

\* C11: teardown() of a run whose result is FAILED performs no cleanup: the
\* step leaves the remote directories, the containers and the requests issued
\* to the node exactly as they were when teardown was entered, and returns.
C11_FailedTeardownKeepsState ==
    [][\A p \in DOMAIN pc :
          FailedTeardownStep(p) =>
              /\ rdirs' = rdirs
              /\ container' = container
              /\ cmds' = cmds
              /\ connOpen' = connOpen
              /\ log'[p] = Append(log[p], Ev("return", TeardownStep))]_vars

\* A run whose stage raised has gone through teardown on a container created
\* from an image: the container still runs and the working directory that
\* setup() created is still there.
C11_Witness ==
    \E p \in DOMAIN pc :
        /\ pc[p] = "done"
        /\ result[p] = "FAILED"
        /\ InLog(p, Ev("return", SetupStep))
        /\ nodeKind[p] = "ContainerImage"
        /\ container[p] = "running"
        /\ [host |-> HostOf(p, nodeKind[p]), path |-> NodeCwd(taskid[p])] \in rdirs

\* The requests setup() has issued to the node by the time it raises: none
\* when the failure precedes the remote mkdir or open() raised, else the mkdir.
SetupRequests(p) ==
    IF connOpen[p]
    THEN <<Cmd("exec", "mkdir -p", NodeCwd(taskid[p]))>>
    ELSE <<>>

\* C12: when setup() raised, wherever it did, teardown() does not raise and
\* issues no request to the node: once it is over it has returned, and the
\* node has received what setup() sent and nothing else.
C12_SetupFailureTeardownSilent ==
    \A p \in DOMAIN pc :
        InLog(p, Ev("raise", SetupStep)) =>
            /\ ~InLog(p, Ev("raise", TeardownStep))
            /\ cmds[p] = SetupRequests(p)
            /\ pc[p] \in {"return", "done"} =>
                  /\ InLog(p, Ev("return", TeardownStep))
                  /\ exc[p] = NoExc

\* setup() raised before the task id was assigned and before the node was
\* contacted, and the run has ended.
C12_Witness ==
    \E p \in DOMAIN pc :
        /\ pc[p] = "done"
        /\ InLog(p, Ev("raise", SetupStep))
        /\ taskid[p] = NoTaskid
        /\ ~connOpen[p]

IsStageBegin(e) == e.ev = "begin" /\ IsStage(e.step)

\* The stages run() has called so far, in call order.
BegunStages(p) == SelectSeq(log[p], IsStageBegin)

\* The numeric suffix of a stage name.
StageNumber(step) == ParseInt(Tail(step))

\* C13: for a class that defines stage1 .. stageK, K >= 10 included, run()
\* calls the stages in ascending order of their numeric suffix: the n-th
\* stage called is stage n, and a run in which every stage returned has
\* called exactly the K of them.
C13_StagesAscendingNumeric ==
    \A p \in DOMAIN pc :
        /\ \A n \in 1..Len(BegunStages(p)) :
              StageNumber(BegunStages(p)[n].step) = n
        /\ result[p] = "SUCCESSFUL" => Len(BegunStages(p)) = Len(stages[p])

\* C14: self.result is unset as long as the try/except part of run() is not
\* over and is SUCCESSFUL or FAILED from then on; it is assigned once, at the
\* end of that part, and no later step changes it, teardown() included.
C14_ResultAssignedOnce ==
    [][\A p \in DOMAIN pc :
          /\ pc[p] \notin EndPcs => result[p] = NoResult
          /\ pc'[p] \notin EndPcs => result'[p] = NoResult
          /\ pc'[p] \in EndPcs => result'[p] \in {"SUCCESSFUL", "FAILED"}
          /\ result'[p] # result[p] =>
                /\ result[p] = NoResult
                /\ pc[p] \in {"loop", "raising"}
                /\ pc'[p] = "finally"]_vars

\* teardown() raised in a run whose result was SUCCESSFUL, and the run has
\* ended with that result still in place.
C14_Witness ==
    \E p \in DOMAIN pc :
        /\ pc[p] = "done"
        /\ InLog(p, Ev("raise", TeardownStep))
        /\ result[p] = "SUCCESSFUL"

\* Env.get_node returns the first node of the environment with the requested
\* name; main.run builds the Pipeline with that one node.
FirstMatch == 1

\* The nodes of the environment that the selection of invocation p matches.
SelectedNodes(p) == 1..matched[p]

\* The nodes on which a stage of p is executing: run() calls the stage method
\* once, in the calling thread, and the method has self.node to act on.
StageNodes(p) == IF pc[p] = "in_stage" THEN {FirstMatch} ELSE {}

\* The nodes on which the stage logic of a step has run to its end.
CompletedOn(p, step) ==
    IF InLog(p, Ev("return", step)) THEN {FirstMatch} ELSE {}

\* C15: while a stage executes, one execution context runs for each of the
\* N selected nodes, N > 1 included, and a stage starts only when the step
\* before it has ended on every node that ran it.
C15_OneContextPerSelectedNode ==
    \A p \in DOMAIN pc :
        /\ pc[p] = "in_stage" => StageNodes(p) = SelectedNodes(p)
        /\ \A i \in 2..Len(log[p]) :
              StageBeganAt(p, i) =>
                  /\ log[p][i - 1].ev = "return"
                  /\ CompletedOn(p, log[p][i - 1].step) # {}

\* C16: when the stage fails on one node, the stage logic still runs to
\* completion on every other selected node, and the result is FAILED once
\* the stage is over.
C16_SiblingsRunToCompletion ==
    \A p \in DOMAIN pc :
        \A i \in 1..Len(log[p]) :
            (StageRaisedAt(p, i) /\ pc[p] \in EndPcs) =>
                /\ SelectedNodes(p) \ {FirstMatch} \subseteq
                       CompletedOn(p, log[p][i].step)
                /\ result[p] = "FAILED"

\* C17: when execution contexts use cd and exec on one node concurrently,
\* each command runs in the directory its own context selected: the
\* directory that context's cd calls alone determine.
C17_ConcurrentCdExecIsolated ==
    \A t \in DOMAIN cpc : ran[t] # NoRan => ran[t].got = ran[t].want

\* C18: when execution contexts make the first use of a connection at the
\* same time, one connect is performed, not one per context.
C18_SingleConnectWhenRaced ==
    connects <= 1

\* C19: on a connection used by one sequential caller, an operation that
\* runs has been preceded by a connect, and the number of connects is one
\* plus the number of times the session was lost: while the session stays
\* alive, operations after the first connect none.
C19_OneConnectPerSession ==
    /\ (opsDone > 0 \/ \E t \in DOMAIN cpc : cpc[t] = "body") => connects >= 1
    /\ connects <= 1 + losses
    /\ losses = 0 => connects <= 1

\* A sequential caller has completed an exec, a download and an upload on a
\* session that was never lost, with one connect.
C19_Witness ==
    /\ DOMAIN cpc = {1}
    /\ opsDone >= 3
    /\ ran[1] # NoRan
    /\ losses = 0
    /\ connects = 1

\* The overlay that is in effect inside the scopes a context has open.
ScopeOverlay(t) ==
    IF scopes[t] = <<>> THEN NoPath ELSE scopes[t][Len(scopes[t])]

\* C20: leaving a cd scope restores the overlay that was in effect when the
\* scope was entered, so for a sequential caller the overlay is always that
\* of the innermost scope still open, nested scopes included.
C20_CdRestoresPrevious ==
    \A t \in DOMAIN cpc : overlay = ScopeOverlay(t)

\* The pipeline whose stage method made the call: the frame next to those
\* of the node's own methods.
Caller == stack[Len(NodeFrames) + 1]

\* C21: the directory Node.exec reads from Node.cwd is the overlay itself
\* when the overlay is absolute, and otherwise
\* <node base dir>/<name>/<task id>/<overlay> (without the last part when
\* the overlay is empty), name and task id being those of the pipeline that
\* runs the calling stage method.
C21_NodeCwdResolution ==
    \A t \in DOMAIN cpc :
        cpc[t] = "conn_cd" =>
            execCwd[t] = IF IsAbsolute(overlay) THEN overlay
                         ELSE <<NodeBwd, Caller.name,
                                FormatTaskid(Caller.taskid)>> \o overlay

\* A stage of a pipeline that another pipeline's stage runs calls exec
\* inside a cd scope with a relative path.
C21_Witness ==
    /\ cpc = <<"conn_cd">>
    /\ overlay = <<"sub">>
    /\ Len(stack) > Len(PlainStack)
    /\ Caller.name = "other"
\* C22: two runs that are in progress at the same time on one node have
\* resolved different remote working directories on it, whatever their
\* pipeline classes and the local base directories of their processes.
C22_SharedNodeDistinctDirs ==
    \A r1, r2 \in DOMAIN spc :
        (r1 # r2 /\ spc[r1] = "running" /\ spc[r2] = "running")
            => runDir[r1] # runDir[r2]
\* C23: a relative remote path given to getfile or putfile while a cd
\* overlay is set is resolved against Node.cwd, where commands run.
C23_TransferResolvedAgainstCwd ==
    \A t \in DOMAIN moved :
        (/\ moved[t].op \in {"getfile", "putfile"}
         /\ moved[t].cd
         /\ ~IsAbsolute(moved[t].arg))
            => moved[t].at = moved[t].want

\* C27: an authentication failure, a timeout, an unreachable port and a
\* malformed banner end open() of a shell connection with four different
\* error types, and any other error of the protocol library with the type
\* the library raised.
C27_OpenFailureTypesDistinct ==
    \A t \in DOMAIN err :
        /\ err[t].cause \in ShellCauses =>
              \A c \in ShellCauses \ {err[t].cause} :
                  OpenErrorType(c) # err[t].type
        /\ err[t].cause = "protocol" => err[t].type = LibraryType("protocol")
\* C24: exec ends with CommandError exactly when the remote exit status is
\* not 0, the error carrying that status and the caller's cmd; with status 0
\* it returns a CommandResult with rc 0 and the caller's cmd.
C24_CommandErrorIffNonZero ==
    (xpc = "done") =>
        /\ (outcome.kind = "CommandError") <=> (status # 0)
        /\ outcome.kind = "CommandError" =>
              (outcome.rc = status /\ outcome.cmd = ExecCmd)
        /\ status = 0 =>
              /\ outcome.kind = "CommandResult"
              /\ outcome.rc = 0
              /\ outcome.cmd = ExecCmd

\* C25: the read loop of exec is left only after a read that returned no
\* data.
C25_LoopEndsOnEmptyRead ==
    (xpc \in {"status", "done"}) => lastRaw = "empty"

\* C26: the environment of a call holds, key by key, the value of the
\* call's envs, else the value of the connection's envs, else en_US.UTF-8
\* for LANG and LANGUAGE, and no other key.
C26_EnvironmentPerCall ==
    (xpc \in {"loop", "status", "done"}) =>
        /\ DOMAIN environment =
              DOMAIN call.envs \cup DOMAIN ctorEnvs \cup {"LANG", "LANGUAGE"}
        /\ \A k \in DOMAIN environment :
              environment[k] = IF k \in DOMAIN call.envs THEN call.envs[k]
                               ELSE IF k \in DOMAIN ctorEnvs THEN ctorEnvs[k]
                               ELSE DefaultLang

\* A call without X that follows a call that overrode X and LANG, on a
\* connection constructed without X.
C26_Witness ==
    /\ xpc = "loop"
    /\ calls = 2
    /\ DOMAIN call.prev = {"LANG", "X"}
    /\ call.prev["LANG"] = <<"C">>
    /\ call.envs = <<>>
    /\ DOMAIN environment = {"LANG", "LANGUAGE"}
\* C28: after putdir(tree, rdir) and getdir(rdir/<basename of tree>, new)
\* the files below new/<basename of tree> are those of the tree: the same
\* relative paths with the same contents.
C28_DirRoundTrip ==
    (tcls = "SFTPConnection" /\ tpc = "done") =>
        RelFiles(lfs, targs.back \o <<Name(targs.ldir)>>)
            = RelFiles(lfs, targs.ldir)

\* C29: putfile leaves the copy at rdir/<basename of lfile> and getfile at
\* ldir/<basename of rfile> (the filename argument in place of the basename
\* when one is given), whatever the directory part of the source, for the
\* three connection classes.
C29_CopyAtBasename ==
    (tpc = "done") =>
        LET fs == IF targs.op = "putfile" THEN rfs ELSE lfs
            expected == targs.dir \o <<IF targs.filename # NoName
                                        THEN targs.filename ELSE FileName>>
        IN  /\ expected \in DOMAIN fs
            /\ fs[expected] = "new"

\* C30: once getfile of a container connection has ended, ldir/<name>.tar
\* does not exist, and every file that was in ldir before the call, the
\* destination ldir/<name> apart, is there with its contents.
C30_ArchiveRemovedOthersKept ==
    (tcls = "ContainerConnection" /\ targs.op = "getfile"
        /\ tpc \in {"done", "raised"}) =>
        /\ TarFile(targs.src, targs.dir) \notin DOMAIN lfs
        /\ \A q \in DOMAIN targs.before :
              q # targs.dir \o <<FileName>> =>
                  (q \in DOMAIN lfs /\ lfs[q] = targs.before[q])
\* C35: the counter kept in taskid.txt never falls below a value it held
\* before, also when an invocation is killed while it holds the lock, and no
\* invocation obtains a task id that was handed out before: whenever the
\* lock is free the file holds at least the initial counter, and every task
\* id obtained is above the initial counter and differs from the others.
C35_CounterSurvivesKill ==
    /\ (lockHolder = NoProc /\ idfile # Absent) =>
           ReadCounter(idfile) >= initCounter
    /\ \A p \in DOMAIN pc :
           taskid[p] # NoTaskid => taskid[p] > initCounter
    /\ \A p, q \in DOMAIN pc :
           (p # q /\ taskid[p] # NoTaskid /\ taskid[q] # NoTaskid) =>
               taskid[p] # taskid[q]

\* C36: after putdir(ldir, rdir) every file at relative path p of ldir is at
\* rdir/<basename of ldir>/p with its contents, and nothing exists on the
\* remote side outside rdir/<basename of ldir>; after the getdir that follows,
\* the same holds of the remote tree and new/<basename of ldir>.
C36_DirMirrored ==
    LET name == Name(targs.ldir)
        Within(fs, root, top) ==
            \A q \in DOMAIN fs :
                IsPrefix(root, q) => (q = root \/ IsPrefix(top, q))
    IN  /\ (tpc \in {"put", "done"}) =>
               /\ RelFiles(rfs, targs.rdir \o <<name>>)
                      = RelFiles(lfs, targs.ldir)
               /\ Within(rfs, targs.rdir, targs.rdir \o <<name>>)
        /\ (tpc = "done") =>
               /\ RelFiles(lfs, targs.back \o <<name>>)
                      = RelFiles(rfs, targs.rdir \o <<name>>)
               /\ Within(lfs, targs.back, targs.back \o <<name>>)

\* C39: when an exception leaves a cd scope of the node the overlay is reset
\* as on a normal exit; when Node.exec ends, by return or by exception, the
\* connection's overlay is empty; and a command called while the node's
\* overlay is empty, as it is after a failed scope, runs in the pipeline
\* working directory.
C39_OverlayResetOnRaise ==
    [][\A t \in DOMAIN cpc :
          /\ Len(scopes'[t]) < Len(scopes[t]) => overlay' = NoPath
          /\ (curOp[t] = "exec" /\ cpc[t] # "idle" /\ cpc'[t] = "idle") =>
                connCwd' = NoPath
          /\ (curOp[t] = "exec" /\ cpc[t] = "body" /\ cpc'[t] # "body"
                /\ overlay = NoPath) =>
                ran'[t].got = CtxCwd(NoPath)]_vars

\* A command that ran in the directory of a cd scope has failed, the
\* exception has left every scope, and the overlays are empty.
C39_Witness ==
    /\ err[1].type = "CommandError"
    /\ cpc[1] = "idle"
    /\ scopes[1] = <<>>
    /\ ran[1].got # CtxCwd(NoPath)
    /\ overlay = NoPath
    /\ connCwd = NoPath

\* C38: no exec, getfile or putfile runs on a connection that was closed:
\* after close() the next operation connects again before its body runs,
\* for the SSH and for the container connection.
C38_ReconnectAfterClose ==
    \A t \in DOMAIN cpc : cpc[t] = "body" => session # "closed"

\* C40: every attribute run() calls as a stage is named 'stage' followed by
\* digits and nothing else.
C40_OnlyDigitStagesRun ==
    \A p \in DOMAIN pc :
        \A i \in 1..Len(log[p]) :
            StageBeganAt(p, i) =>
                \A j \in 2..Len(log[p][i].step) :
                    \E d \in 1..10 : DigitChars[d] = log[p][i].step[j]

\* C34: the process of a run whose result is FAILED ends with a status other
\* than 0, and the process of a run whose result is SUCCESSFUL ends with
\* status 0.
C34_ExitStatusFollowsResult ==
    \A p \in DOMAIN pc :
        pc[p] = "exited" =>
            /\ result[p] = "FAILED" => exitStatus[p] # 0
            /\ result[p] = "SUCCESSFUL" => exitStatus[p] = 0

\* C37: concurrent calls of open() on an SFTP connection without a live
\* session connect once: the test for a live session and the connect are
\* made by the holder of _openlock only, at most one connect succeeds, and
\* once every call is over and one of them returned there was exactly one.
C37_OneConnectUnderLock ==
    /\ \A t \in DOMAIN opc :
           opc[t] \in {"test", "connect", "release", "unwind"} =>
               openLock = t
    /\ transports <= 1
    /\ ((\A t \in DOMAIN opc : opc[t] \in {"done", "raised"})
          /\ (\E t \in DOMAIN opc : opc[t] = "done")) => transports = 1

\* Every thread has returned from open() and one connect was made.
C37_Witness ==
    /\ DOMAIN opc = Openers
    /\ \A t \in Openers : opc[t] = "done"
    /\ transports = 1

\* C31: the call of the progress callback with transferred = total emits a
\* line (100%), and two lines emitted below 100% are at least the interval
\* apart.
C31_ProgressThrottled ==
    /\ ppc = "complete" =>
           /\ lines # <<>>
           /\ lines[Len(lines)] = [at |-> clock, percent |-> 100]
    /\ \A i, j \in 1..Len(lines) :
           (i < j /\ lines[i].percent < 100 /\ lines[j].percent < 100) =>
               lines[j].at - lines[i].at >= ptask.interval

\* A transfer reported with interval 3 is complete: two lines were emitted
\* below 100%, one at 100%, and one call emitted nothing.
C31_Witness ==
    /\ ppc = "complete"
    /\ ptask.interval = 3
    /\ Len(lines) = 3
    /\ ptask.calls > Len(lines)

\* C32: the text of CommandResult(out) has no escape character, hence no
\* ANSI escape sequence, and no other non-printable character; its only
\* line end is '\n'; and CommandResult of it has the same text.
C32_ResultTextNormalized ==
    [][/\ (rpc' \in {"made", "remade"} /\ query' = <<>>) =>
             \A i \in 1..Len(text') : text'[i] \notin {"ESC", "U", "CR"}
       /\ rpc' = "remade" => text' = text]_vars

\* The result made of an output with an escape character and a carriage
\* return between two lines, and made again of itself.
C32_Witness ==
    /\ rpc = "remade"
    /\ query = <<>>
    /\ \E i \in 1..Len(out) : out[i] = "ESC"
    /\ \E i \in 1..Len(out) : out[i] = "CR"
    /\ \E i \in 1..Len(text) : text[i] = "LF"

\* C33: getfield with a str key returns nothing when no line contains key,
\* and otherwise the trimmed field number col of the first line that
\* contains key (where that line has so many fields).
C33_FieldOfFirstMatch ==
    (rpc \in {"got", "none", "raised"}) =>
        LET ls == SplitLines(text)
            hits == {i \in 1..Len(ls) : Contains(ls[i], query.key)}
            first == CHOOSE i \in hits : \A h \in hits : i <= h
        IN  IF hits = {} THEN rpc = "none"
            ELSE Len(FieldsOf(ls[first], query.sep)) >= query.col =>
                    /\ rpc = "got"
                    /\ field = Strip(FieldsOf(ls[first], query.sep)[query.col])

====
